---- MODULE Spec2Model ----
(***************************************************************************)
(* CAPTCHA Log (RP2_Log): the background script's per-tab session          *)
(* aggregator, its network image interceptor and its export, and the       *)
(* content script (frame agent) that feeds it.                             *)
(*                                                                         *)
(* Spec     : the background script under arbitrary message arrival: every *)
(*            runtime.onMessage branch, tabs.onRemoved, the webRequest     *)
(*            filter and the asynchronous exportSession, with the messages *)
(*            of the frames as inputs.                                     *)
(* SpecPoints, SpecImages, SpecNetwork, SpecElements : the same,           *)
(*            restricted to the events that write the cursor-point list,   *)
(*            the image list, the network channel and the element list of  *)
(*            tab 1, over longer runs.                                     *)
(* SpecSys  : the same background script fed by the content script of the  *)
(*            top frame and of a child frame of tab 1.                     *)
(* SpecConsent : the consent page, the toolbar button and the arming of    *)
(*            the frames.                                                  *)
(* SpecPointer, SpecRounds : the content scripts under a wider choice of   *)
(*            documents, pointer positions and image notifications.        *)
(***************************************************************************)
EXTENDS Integers, Sequences, FiniteSets, TLC

----------------------------------------------------------------------------
(* Bounds of the model.                                                    *)

\* background.js sets MAX_CURSOR_POINTS = 50000 and MAX_IMAGES_PER_TAB = 50;
\* the model keeps the code's comparisons and slices and scales the two caps
\* down so that lists overflow within the explored runs.
MAX_CURSOR_POINTS == 2
MAX_IMAGES_PER_TAB == 2
\* number of external events (messages, requests, tab closes) in a run of
\* Spec, where every frame sends every message, of SpecSys, of SpecImages, of
\* SpecElements, and of the other specifications of one channel
MaxSpecEvents == 3
MaxSysEvents == 4
MaxImageEvents == 4
MaxElementEvents == 4
MaxPointerEvents == 4
MaxRoundEvents == 4
MaxTriggerEvents == 2
MaxRaceEvents == 4
MaxOrderEvents == 6
MaxSummaryEvents == 3
MaxIdleEvents == 5
\* latest time of the clock in a run in which the pointer rests
MaxIdleT == 10
MaxReloadEvents == 4
MaxTabEvents == 3
MaxArmingEvents == 3
MaxEvents == 5
\* largest frame-relative time of a cursor point
MaxT == 2
\* longest image list a captcha-image-captured message of SpecFrame reports
MaxImageCount == 4

----------------------------------------------------------------------------
(* Tabs and frames.                                                        *)

Tabs == {1, 2}
\* webRequest reports tabId -1 for a request that belongs to no tab
NoTabId == 0 - 1
Frames == {"top", "child", "other"}
TabOf(f) == IF f = "other" THEN 2 ELSE 1
isTopFrame(f) == f \in {"top", "other"}
frameId(f) == f
frameUrl(f) == IF f = "child" THEN "https://captcha.example/frame" ELSE "https://site.example/"
frameDepth(f) == IF isTopFrame(f) THEN 0 ELSE 1

----------------------------------------------------------------------------
(* Generic helpers: JavaScript objects used as maps, arrays.               *)

\* obj[k] = v
Put(obj, k, v) == [x \in (DOMAIN obj) \cup {k} |-> IF x = k THEN v ELSE obj[x]]
\* delete obj[k]
Del(obj, k) == [x \in (DOMAIN obj) \ {k} |-> obj[x]]
\* obj[k] || []
GetOrEmpty(obj, k) == IF k \in DOMAIN obj THEN obj[k] ELSE << >>
EmptyMap == << >>

Min(a, b) == IF a < b THEN a ELSE b
\* Array.prototype.slice(-n) for n > 0
SliceLast(arr, n) ==
  IF Len(arr) <= n THEN arr ELSE SubSeq(arr, Len(arr) - n + 1, Len(arr))
\* Array.prototype.slice(0, n)
SliceFirst(arr, n) == IF Len(arr) <= n THEN arr ELSE SubSeq(arr, 1, n)

Range(s) == {s[i] : i \in DOMAIN s}
\* number of positions of s holding v
Count(s, v) == Cardinality({i \in DOMAIN s : s[i] = v})
\* the two sequences hold the same elements with the same multiplicities
SameBag(s, u) ==
  /\ Len(s) = Len(u)
  /\ \A v \in Range(s) \cup Range(u) : Count(s, v) = Count(u, v)

----------------------------------------------------------------------------
(* Cursor points.                                                          *)

MkPoint(f, x, y, t, over) ==
  [frameId |-> frameId(f), frameUrl |-> frameUrl(f), frameDepth |-> frameDepth(f), x |-> x,
   y |-> y, t |-> t, overCaptcha |-> over]

\* Array.prototype.sort((a, b) => a.t - b.t): a stable sort by t, here by
\* insertion of each element after the elements that are not greater.
InsertByTDesc(sorted, p) ==
  LET k == Cardinality({i \in DOMAIN sorted : sorted[i].t >= p.t})
  IN  SubSeq(sorted, 1, k) \o <<p>> \o SubSeq(sorted, k + 1, Len(sorted))
InsertByT(sorted, p) ==
  LET k == Cardinality({i \in DOMAIN sorted : sorted[i].t <= p.t})
  IN  SubSeq(sorted, 1, k) \o <<p>> \o SubSeq(sorted, k + 1, Len(sorted))
RECURSIVE SortByT(_)
SortByT(arr) ==
  IF arr = << >> THEN << >>
  ELSE InsertByT(SortByT(SubSeq(arr, 1, Len(arr) - 1)), arr[Len(arr)])

\* aggregatedCursorPoints[tabId].slice(-MAX_CURSOR_POINTS) when over the cap
CapPoints(arr) ==
  IF Len(arr) > MAX_CURSOR_POINTS THEN SliceLast(arr, MAX_CURSOR_POINTS) ELSE arr

----------------------------------------------------------------------------
(* Response bodies and data URLs.                                          *)

\* A response body is its length, its first bytes (detectMimeFromBytes reads
\* bytes[0..11] and bytes.length only) and two tokens standing for the content
\* that base64 carries into the first 200 characters of the data URL (lead)
\* and into the rest of it (tail).
Body(bytes, length, lead, tail) ==
  [bytes |-> bytes, length |-> length, lead |-> lead, tail |-> tail]

Undefined == 0 - 1
\* bytes[i] of a Uint8Array (0-based), undefined past the end
ByteAt(body, i) ==
  IF i < Min(body.length, Len(body.bytes)) THEN body.bytes[i + 1] ELSE Undefined

Null == "null"
MimeTypes == {"image/png", "image/jpeg", "image/gif", "image/webp", "image/bmp"}

detectMimeTwoByteJpeg(body) ==
  IF body.length < 8 THEN Null
  ELSE IF ByteAt(body, 0) = 137 /\ ByteAt(body, 1) = 80 /\ ByteAt(body, 2) = 78 /\ ByteAt(body, 3) = 71
    THEN "image/png"
  ELSE IF ByteAt(body, 0) = 255 /\ ByteAt(body, 1) = 216
    THEN "image/jpeg"
  ELSE IF ByteAt(body, 0) = 71 /\ ByteAt(body, 1) = 73 /\ ByteAt(body, 2) = 70 /\ ByteAt(body, 3) = 56
    THEN "image/gif"
  ELSE IF /\ ByteAt(body, 0) = 82 /\ ByteAt(body, 1) = 73 /\ ByteAt(body, 2) = 70 /\ ByteAt(body, 3) = 70
          /\ ByteAt(body, 8) = 87 /\ ByteAt(body, 9) = 69 /\ ByteAt(body, 10) = 66 /\ ByteAt(body, 11) = 80
    THEN "image/webp"
  ELSE IF ByteAt(body, 0) = 66 /\ ByteAt(body, 1) = 77
    THEN "image/bmp"
  ELSE Null
detectMimeFromBytes(body) ==
  IF body.length < 8 THEN Null
  ELSE IF ByteAt(body, 0) = 137 /\ ByteAt(body, 1) = 80 /\ ByteAt(body, 2) = 78 /\ ByteAt(body, 3) = 71
    THEN "image/png"
  ELSE IF ByteAt(body, 0) = 255 /\ ByteAt(body, 1) = 216 /\ ByteAt(body, 2) = 255
    THEN "image/jpeg"
  ELSE IF ByteAt(body, 0) = 71 /\ ByteAt(body, 1) = 73 /\ ByteAt(body, 2) = 70 /\ ByteAt(body, 3) = 56
    THEN "image/gif"
  ELSE IF /\ ByteAt(body, 0) = 82 /\ ByteAt(body, 1) = 73 /\ ByteAt(body, 2) = 70 /\ ByteAt(body, 3) = 70
          /\ ByteAt(body, 8) = 87 /\ ByteAt(body, 9) = 69 /\ ByteAt(body, 10) = 66 /\ ByteAt(body, 11) = 80
    THEN "image/webp"
  ELSE IF ByteAt(body, 0) = 66 /\ ByteAt(body, 1) = 77
    THEN "image/bmp"
  ELSE Null

\* number of characters of a MIME type
MimeLen(mime) == IF mime \in {"image/jpeg", "image/webp"} THEN 10 ELSE 9
\* `data:${mimeType};base64,${btoa(binary)}`: a data URL is its first 200
\* characters (head: the MIME type and the lead of the payload), the rest
\* (tail) and its length in characters.
DataUrl(mime, lead, tail, len) ==
  [tail |-> tail, len |-> len, head |-> [lead |-> lead, mime |-> mime]]
ToDataUrl(mime, body) ==
  DataUrl(mime, body.lead, body.tail, 13 + MimeLen(mime) + 4 * ((body.length + 2) \div 3))
\* dataUrl.substring(0, 200)
Substring200(dataUrl) ==
  IF dataUrl.len <= 200 THEN [tail |-> dataUrl.tail, head |-> dataUrl.head]
  ELSE [tail |-> "", head |-> dataUrl.head]
\* img.dataUrl.match(/^data:([^;,]+)/), "image/png" without a match
NoMime == ""
MimeOfDataUrl(dataUrl) == IF dataUrl.head.mime = NoMime THEN "image/png" ELSE dataUrl.head.mime
\* Math.round(n * 0.75)
Round075(n) == (3 * n + 2) \div 4
\* img.mimeType.split("/")[1]
Subtype(mime) ==
  CASE mime = "image/png" -> "png" [] mime = "image/jpeg" -> "jpeg" [] mime = "image/gif" -> "gif"
    [] mime = "image/webp" -> "webp" [] mime = "image/bmp" -> "bmp" [] OTHER -> "undefined"

\* the entry filter.onstop stores (it has no source field)
NetworkEntry(url, mime, body) ==
  [dataUrl |-> ToDataUrl(mime, body), url |-> url, size |-> body.length, mimeType |-> mime]
\* the entry the captcha-inline-images branch stores
InlineEntry(img) ==
  [frameId |-> img.frameId,
   dataUrl |-> img.dataUrl,
   url |-> <<"inline", img.type, img.selector>>,
   size |-> Round075(img.dataUrl.len),
   mimeType |-> MimeOfDataUrl(img.dataUrl),
   source |-> "dom-extraction",
   extractionType |-> img.type,
   captchaSelector |-> img.captchaSelector]

\* capturedImages[tabId].some(existing => existing.dataUrl.substring(0, 200) === urlKey)
HasFingerprint(stored, dataUrl) ==
  \E j \in DOMAIN stored : Substring200(stored[j].dataUrl) = Substring200(dataUrl)

\* the for loop of the captcha-inline-images branch
RECURSIVE PushInlineNoDedup(_, _)
PushInlineNoDedup(stored, images) ==
  IF images = << >> THEN stored
  ELSE PushInlineNoDedup(Append(stored, InlineEntry(Head(images))), Tail(images))
RECURSIVE PushInline(_, _)
PushInline(stored, images) ==
  IF images = << >> THEN stored
  ELSE PushInline(IF HasFingerprint(stored, Head(images).dataUrl) THEN stored
                  ELSE Append(stored, InlineEntry(Head(images))),
                  Tail(images))

\* capturedImages[tabId].slice(-MAX_IMAGES_PER_TAB) when over the cap
CapImagesKeepOldest(arr) ==
  IF Len(arr) > MAX_IMAGES_PER_TAB THEN SliceFirst(arr, MAX_IMAGES_PER_TAB) ELSE arr
CapImages(arr) ==
  IF Len(arr) > MAX_IMAGES_PER_TAB THEN SliceLast(arr, MAX_IMAGES_PER_TAB) ELSE arr

----------------------------------------------------------------------------
(* CAPTCHA element records.                                                *)

ElementRecord(f, selector, rect) ==
  [frameId |-> frameId(f), frameUrl |-> frameUrl(f), frameDepth |-> frameDepth(f),
   selector |-> selector, rect |-> rect]
\* `${e.frameId}:${e.selector}`
ElementKey(e) == <<e.frameId, e.selector>>
\* a merge in which the later report of a key replaces the stored record
RECURSIVE MergeElementsLastWins(_, _)
MergeElementsLastWins(stored, elements) ==
  IF elements = << >> THEN stored
  ELSE MergeElementsLastWins(
         IF \E j \in DOMAIN stored : ElementKey(stored[j]) = ElementKey(Head(elements))
           THEN [j \in DOMAIN stored |->
                   IF ElementKey(stored[j]) = ElementKey(Head(elements))
                     THEN Head(elements) ELSE stored[j]]
           ELSE Append(stored, Head(elements)),
         Tail(elements))
\* the merge loop of the captcha-elements branch
RECURSIVE MergeElements(_, _)
MergeElements(stored, elements) ==
  IF elements = << >> THEN stored
  ELSE MergeElements(
         IF \E j \in DOMAIN stored : ElementKey(stored[j]) = ElementKey(Head(elements))
           THEN stored ELSE Append(stored, Head(elements)),
         Tail(elements))

----------------------------------------------------------------------------
(* State.                                                                  *)

VARIABLES
  \* background.js
  capturedImages,             \* { tabId: [imageEntry] }
  aggregatedCursorPoints,     \* { tabId: [point] }
  aggregatedCaptchaElements,  \* { tabId: [element] }
  activatedTabs,              \* Set of tabId
  badgeText,                  \* browserAction badge of each tab
  filters,                    \* response filters created and not yet stopped
  exports,                    \* every call of exportSession(tabId, sessionData), in call order
  \* message plumbing
  response,                   \* the value the last handled message was answered with
  last,                       \* the last event handled
  eventsLeft,                 \* number of external events the run may still take
  notif,                      \* captcha-image-captured messages on their way to each tab
  loaded,                     \* frames in which the content script is running
  consented,                  \* browser.storage.local: the value stored under "consented"
  \* main.js
  frame,                      \* the content script's variables, in each frame
  dom,                        \* the CAPTCHA elements in each frame's document
  chan,                       \* runtime.sendMessage: each frame's messages on their way
  procs,                      \* the calls of the content script's exportSession
  now,                        \* Date.now()
  \* history kept for the statement of the properties
  ptsLog,                     \* per tab: cursor points received since the list was last reset
  imgLog,                     \* per tab: images appended since the list was last reset
  removedTabs                 \* tabs whose tabs.onRemoved event was handled

bgVars == <<capturedImages, aggregatedCursorPoints, aggregatedCaptchaElements,
            activatedTabs, badgeText, filters, exports>>
logVars == <<ptsLog, imgLog, removedTabs>>
frameVars == <<loaded, frame, dom, chan, procs, now>>
vars == <<bgVars, response, last, eventsLeft, notif, consented, logVars, frameVars>>

NoResponse == [kind |-> "undefined"]
\* storage.local holds no value under "consented" until the consent page sets one
NoConsent == "undefined"
EmptyLog == [n |-> 0, recent |-> << >>]

\* the images array an exportSession call holds: capturedImages[tabId] itself
\* while the map still refers to the array the call read, its own copy after
\* the map entry was assigned a new array or deleted
ExportImages(e) == IF e.aliased THEN capturedImages[e.tabId] ELSE e.images
\* capturedImages[tabId] is assigned a new array (or deleted): the calls that
\* hold the old array keep it
Detach(exps, tabId, arr) ==
  [k \in DOMAIN exps |->
     IF exps[k].tabId = tabId /\ exps[k].aliased
       THEN [exps[k] EXCEPT !.aliased = FALSE, !.images = arr]
       ELSE exps[k]]

\* browser.tabs.sendMessage(tabId, {action: "captcha-image-captured", imageCount}).catch(() => {})
Notify(tabId, imageCount) ==
  IF \E f \in Frames : TabOf(f) = tabId /\ loaded[f]
    THEN notif' = [notif EXCEPT ![tabId] = Append(@, imageCount)]
    ELSE notif' = notif

LogPoint(tabId, p) ==
  ptsLog' = [ptsLog EXCEPT ![tabId] =
               [n |-> Min(@.n + 1, MAX_CURSOR_POINTS + 1),
                recent |-> SliceLast(Append(@.recent, p), MAX_CURSOR_POINTS)]]
LogImages(tabId, before, after) ==
  imgLog' = [imgLog EXCEPT ![tabId] =
               [n |-> Min(@.n + Len(after) - Len(before), MAX_IMAGES_PER_TAB + 1),
                recent |-> SliceLast(@.recent \o SubSeq(after, Len(before) + 1, Len(after)),
                                     MAX_IMAGES_PER_TAB)]]

TypeOK ==
  /\ DOMAIN capturedImages \subseteq Tabs
  /\ DOMAIN aggregatedCursorPoints \subseteq Tabs
  /\ DOMAIN aggregatedCaptchaElements \subseteq Tabs
  /\ activatedTabs \subseteq Tabs
  /\ eventsLeft \in 0..MaxEvents
  /\ \A k \in DOMAIN exports : exports[k].aliased => exports[k].tabId \in DOMAIN capturedImages

\* main.js: the variables of a content script that has just been loaded
FrameInit ==
  [isArmed |-> FALSE, isRecording |-> FALSE, recordingStartTime |-> 0, cursorPoints |-> << >>,
   captchaElements |-> << >>, roundCount |-> 0, lastImageCount |-> 0, lastCursorTime |-> 0,
   intervalExportTimer |-> FALSE, lastInlineExtractionTime |-> 0, hasUserInteraction |-> FALSE,
   captchaObserver |-> FALSE, mousemove |-> FALSE, indicatorEl |-> FALSE,
   inactivityTimer |-> 0]

\* the content script runs in the frames of running; the get-armed-state
\* message of checkPersistedArmedState has been handled (no branch of the
\* background listener answers it, and the frame stays unarmed)
InitFrames(running) ==
  /\ loaded = [f \in Frames |-> f \in running]
  /\ frame = [f \in Frames |-> FrameInit]
  /\ chan = [f \in Frames |-> << >>]
  /\ procs = << >>
  /\ now = 1

InitBackground(events) ==
  /\ eventsLeft = events
  /\ capturedImages = EmptyMap
  /\ aggregatedCursorPoints = EmptyMap
  /\ aggregatedCaptchaElements = EmptyMap
  /\ activatedTabs = {}
  /\ badgeText = [tabId \in Tabs |-> ""]
  /\ filters = {}
  /\ exports = << >>
  /\ response = NoResponse
  /\ last = [action |-> "none"]
  /\ notif = [tabId \in Tabs |-> << >>]
  /\ consented = NoConsent
  /\ ptsLog = [tabId \in Tabs |-> EmptyLog]
  /\ imgLog = [tabId \in Tabs |-> EmptyLog]
  /\ removedTabs = {}

\* the background script alone: no content script is running
InitWith(events) ==
  /\ InitBackground(events)
  /\ InitFrames({})
  /\ dom = [f \in Frames |-> << >>]

----------------------------------------------------------------------------
(* background.js: the branches of the runtime.onMessage listener, each as  *)
(* its effect on the background state for a message of a frame of tabId.   *)

\* the handler without its two tests of message.isTopFrame
OnActivatedStateAnyFrame(tabId, activated, isTop) ==
  /\ IF activated THEN
       /\ activatedTabs' = activatedTabs \cup {tabId}
       /\ capturedImages' = Put(capturedImages, tabId, << >>)
       /\ exports' = Detach(exports, tabId, GetOrEmpty(capturedImages, tabId))
       /\ aggregatedCursorPoints' = Put(aggregatedCursorPoints, tabId, << >>)
       /\ aggregatedCaptchaElements' = Put(aggregatedCaptchaElements, tabId, << >>)
       /\ ptsLog' = [ptsLog EXCEPT ![tabId] = EmptyLog]
       /\ imgLog' = [imgLog EXCEPT ![tabId] = EmptyLog]
       /\ UNCHANGED badgeText
     ELSE
       /\ activatedTabs' = activatedTabs \ {tabId}
       /\ badgeText' = [badgeText EXCEPT ![tabId] = ""]
       /\ UNCHANGED <<capturedImages, exports, aggregatedCursorPoints,
                      aggregatedCaptchaElements, ptsLog, imgLog>>
  /\ response' = NoResponse
  /\ UNCHANGED <<filters, notif>>
\* action "activated-state"
OnActivatedState(tabId, activated, isTop) ==
  /\ IF activated /\ isTop THEN
       /\ activatedTabs' = activatedTabs \cup {tabId}
       /\ capturedImages' = Put(capturedImages, tabId, << >>)
       /\ exports' = Detach(exports, tabId, GetOrEmpty(capturedImages, tabId))
       /\ aggregatedCursorPoints' = Put(aggregatedCursorPoints, tabId, << >>)
       /\ aggregatedCaptchaElements' = Put(aggregatedCaptchaElements, tabId, << >>)
       /\ ptsLog' = [ptsLog EXCEPT ![tabId] = EmptyLog]
       /\ imgLog' = [imgLog EXCEPT ![tabId] = EmptyLog]
       /\ UNCHANGED badgeText
     ELSE IF ~activated /\ isTop THEN
       /\ activatedTabs' = activatedTabs \ {tabId}
       /\ badgeText' = [badgeText EXCEPT ![tabId] = ""]
       /\ UNCHANGED <<capturedImages, exports, aggregatedCursorPoints,
                      aggregatedCaptchaElements, ptsLog, imgLog>>
     ELSE
       UNCHANGED <<activatedTabs, badgeText, capturedImages, exports, aggregatedCursorPoints,
                   aggregatedCaptchaElements, ptsLog, imgLog>>
  /\ response' = NoResponse
  /\ UNCHANGED <<filters, notif>>

\* action "cursor-point"
OnCursorPoint(tabId, point) ==
  /\ aggregatedCursorPoints' =
       Put(aggregatedCursorPoints, tabId,
           CapPoints(Append(GetOrEmpty(aggregatedCursorPoints, tabId), point)))
  /\ LogPoint(tabId, point)
  /\ response' = NoResponse
  /\ UNCHANGED <<capturedImages, aggregatedCaptchaElements, activatedTabs, badgeText,
                 filters, exports, notif, imgLog>>

\* action "captcha-elements"
OnCaptchaElements(tabId, elements) ==
  /\ aggregatedCaptchaElements' =
       Put(aggregatedCaptchaElements, tabId,
           MergeElements(GetOrEmpty(aggregatedCaptchaElements, tabId), elements))
  /\ response' = NoResponse
  /\ UNCHANGED <<capturedImages, aggregatedCursorPoints, activatedTabs, badgeText,
                 filters, exports, notif, ptsLog, imgLog>>

\* action "captcha-inline-images"
OnInlineImages(tabId, images) ==
  LET before == GetOrEmpty(capturedImages, tabId)
      pushed == PushInline(before, images)
      capped == CapImages(pushed)
  IN  /\ capturedImages' = Put(capturedImages, tabId, capped)
      /\ exports' = IF Len(pushed) > MAX_IMAGES_PER_TAB
                      THEN Detach(exports, tabId, pushed) ELSE exports
      /\ LogImages(tabId, before, pushed)
      /\ Notify(tabId, Len(capped))
      /\ response' = NoResponse
      /\ UNCHANGED <<aggregatedCursorPoints, aggregatedCaptchaElements, activatedTabs,
                     badgeText, filters, ptsLog>>

\* action "clear-cursor-data"
OnClearCursorData(tabId) ==
  /\ aggregatedCursorPoints' = Put(aggregatedCursorPoints, tabId, << >>)
  /\ aggregatedCaptchaElements' = Put(aggregatedCaptchaElements, tabId, << >>)
  /\ ptsLog' = [ptsLog EXCEPT ![tabId] = EmptyLog]
  /\ response' = [kind |-> "result", success |-> TRUE]
  /\ UNCHANGED <<capturedImages, activatedTabs, badgeText, filters, exports, notif, imgLog>>

\* action "get-aggregated-data": Array.prototype.sort sorts the stored array in place
SortedPoints(tabId) == SortByT(GetOrEmpty(aggregatedCursorPoints, tabId))
OnGetAggregatedData(tabId) ==
  /\ aggregatedCursorPoints' =
       IF tabId \in DOMAIN aggregatedCursorPoints
         THEN Put(aggregatedCursorPoints, tabId, SortedPoints(tabId))
         ELSE aggregatedCursorPoints
  /\ response' = [kind |-> "aggregated",
                  cursorPoints |-> SortedPoints(tabId),
                  captchaElements |-> GetOrEmpty(aggregatedCaptchaElements, tabId)]
  /\ UNCHANGED <<capturedImages, aggregatedCaptchaElements, activatedTabs, badgeText,
                 filters, exports, notif, ptsLog, imgLog>>

\* actions "recording-started" and "recording-stopped"
OnRecordingBadge(tabId, started, isTop) ==
  /\ badgeText' = IF isTop THEN [badgeText EXCEPT ![tabId] = IF started THEN "on" ELSE ""]
                  ELSE badgeText
  /\ response' = NoResponse
  /\ UNCHANGED <<capturedImages, aggregatedCursorPoints, aggregatedCaptchaElements,
                 activatedTabs, filters, exports, notif, ptsLog, imgLog>>

\* action "get-captured-images"
OnGetCapturedImages(tabId) ==
  /\ response' = [images |-> GetOrEmpty(capturedImages, tabId), kind |-> "images"]
  /\ UNCHANGED <<bgVars, notif, ptsLog, imgLog>>

\* action "clear-images"
OnClearImages(tabId) ==
  /\ capturedImages' = Put(capturedImages, tabId, << >>)
  /\ exports' = Detach(exports, tabId, GetOrEmpty(capturedImages, tabId))
  /\ imgLog' = [imgLog EXCEPT ![tabId] = EmptyLog]
  /\ response' = [kind |-> "result", success |-> TRUE]
  /\ UNCHANGED <<aggregatedCursorPoints, aggregatedCaptchaElements, activatedTabs,
                 badgeText, filters, notif, ptsLog>>

\* action "get-activated-state"
OnGetActivatedState(tabId) ==
  /\ response' = [kind |-> "activated", activated |-> (tabId \in activatedTabs)]
  /\ UNCHANGED <<bgVars, notif, ptsLog, imgLog>>

\* a message whose action no branch of the listener tests (the content script's
\* "armed-state" and "get-armed-state"): nothing is done and nothing answered
OnUnhandled(tabId) ==
  /\ response' = NoResponse
  /\ UNCHANGED <<bgVars, notif, ptsLog, imgLog>>

\* a listener that drops the state of every tab
OnTabRemovedDropsAll(tabId) ==
  /\ activatedTabs' = {}
  /\ capturedImages' = EmptyMap
  /\ exports' = [k \in DOMAIN exports |->
                   IF exports[k].aliased
                     THEN [exports[k] EXCEPT !.aliased = FALSE,
                                             !.images = capturedImages[exports[k].tabId]]
                     ELSE exports[k]]
  /\ aggregatedCursorPoints' = EmptyMap
  /\ aggregatedCaptchaElements' = EmptyMap
  /\ ptsLog' = [t \in Tabs |-> EmptyLog]
  /\ imgLog' = [t \in Tabs |-> EmptyLog]
  /\ UNCHANGED <<badgeText, filters, notif, response>>
\* browser.tabs.onRemoved listener
OnTabRemoved(tabId) ==
  /\ activatedTabs' = activatedTabs \ {tabId}
  /\ capturedImages' = Del(capturedImages, tabId)
  /\ exports' = Detach(exports, tabId, GetOrEmpty(capturedImages, tabId))
  /\ aggregatedCursorPoints' = Del(aggregatedCursorPoints, tabId)
  /\ aggregatedCaptchaElements' = Del(aggregatedCaptchaElements, tabId)
  /\ ptsLog' = [ptsLog EXCEPT ![tabId] = EmptyLog]
  /\ imgLog' = [imgLog EXCEPT ![tabId] = EmptyLog]
  /\ UNCHANGED <<badgeText, filters, notif, response>>

----------------------------------------------------------------------------
(* background.js: exportSession(tabId, sessionData).                       *)

\* `img-${String(i + 1).padStart(3, "0")}.${img.mimeType.split("/")[1]}`
Filename(ordinal, mime) == [ordinal |-> ordinal, ext |-> Subtype(mime)]
ImageFile(ordinal, img) == [dataUrl |-> img.dataUrl, filename |-> Filename(ordinal, img.mimeType)]
\* the session object: sessionData, imageCount and the images list
SessionDocument(sessionData, images) ==
  [images |-> [i \in 1..Len(images) |->
                 [url |-> images[i].url,
                  size |-> images[i].size, filename |-> Filename(i, images[i].mimeType)]],
   imageCount |-> Len(images),
   data |-> sessionData]

\* action "export-session": exportSession runs up to its first await, the
\* download of session.json
OnExportSession(tabId, sessionData, proc) ==
  LET images == GetOrEmpty(capturedImages, tabId)
  IN  /\ exports' = Append(exports,
                       [i |-> 0, images |-> << >>,
                        aliased |-> (tabId \in DOMAIN capturedImages),
                        tabId |-> tabId,
                        proc |-> proc,
                        session |-> SessionDocument(sessionData, images),
                        pc |-> "session", pending |-> << >>,
                        sessionWritten |-> FALSE, imageFiles |-> << >>,
                        \* for the statement of the properties: the earlier
                        \* calls that hold the very array this call reads
                        sharesArrayWith |->
                          {j \in DOMAIN exports : exports[j].tabId = tabId /\ exports[j].aliased}])
      /\ response' = [kind |-> "pending"]
      /\ UNCHANGED <<capturedImages, aggregatedCursorPoints, aggregatedCaptchaElements,
                     activatedTabs, badgeText, filters, notif, ptsLog, imgLog>>

\* the lines after the download loop: the three lists of the tab are reset
ExportClear(k, written) ==
  LET e == exports[k]
  IN  /\ capturedImages' = Put(capturedImages, e.tabId, << >>)
      /\ exports' = Detach([exports EXCEPT ![k] = [written EXCEPT !.pc = "done"]],
                           e.tabId, GetOrEmpty(capturedImages, e.tabId))
      /\ aggregatedCursorPoints' = Put(aggregatedCursorPoints, e.tabId, << >>)
      /\ aggregatedCaptchaElements' = Put(aggregatedCaptchaElements, e.tabId, << >>)
      /\ ptsLog' = [ptsLog EXCEPT ![e.tabId] = EmptyLog]
      /\ imgLog' = [imgLog EXCEPT ![e.tabId] = EmptyLog]

\* an exportSession that catches the failure of an image download and goes
\* on with the next image
ExportContinueSkipsFailedImage(k, ok) ==
  LET e == exports[k]
      written == IF e.pc = "session" THEN [e EXCEPT !.sessionWritten = TRUE]
                 ELSE IF ok THEN [e EXCEPT !.imageFiles = @ \o e.pending]
                 ELSE e
      images == ExportImages(e)
      j == e.i + 1
  IN  /\ e.pc \in {"session", "image"}
      /\ IF ~ok /\ e.pc = "session" THEN
           /\ exports' = [exports EXCEPT ![k].pc = "failed"]
           /\ response' = [kind |-> "result", success |-> FALSE]
           /\ UNCHANGED <<capturedImages, aggregatedCursorPoints, aggregatedCaptchaElements,
                          ptsLog, imgLog>>
         ELSE IF j <= Len(images) THEN
           /\ exports' = [exports EXCEPT ![k] =
                            [written EXCEPT !.pc = "image", !.i = j,
                                            !.pending = <<ImageFile(j, images[j])>>]]
           /\ UNCHANGED <<capturedImages, aggregatedCursorPoints, aggregatedCaptchaElements,
                          ptsLog, imgLog, response>>
         ELSE
           /\ ExportClear(k, written)
           /\ response' = [kind |-> "result", success |-> TRUE]
      /\ UNCHANGED <<activatedTabs, badgeText, filters, notif>>

\* the download exportSession awaits resolves (ok) or rejects: the function
\* runs on to its next await, to its return or to its catch
ExportContinue(k, ok) ==
  LET e == exports[k]
      written == IF e.pc = "session" THEN [e EXCEPT !.sessionWritten = TRUE]
                 ELSE [e EXCEPT !.imageFiles = @ \o e.pending]
      images == ExportImages(e)
      j == e.i + 1
  IN  /\ e.pc \in {"session", "image"}
      /\ IF ~ok THEN
           /\ exports' = [exports EXCEPT ![k].pc = "failed"]
           /\ response' = [kind |-> "result", success |-> FALSE]
           /\ UNCHANGED <<capturedImages, aggregatedCursorPoints, aggregatedCaptchaElements,
                          ptsLog, imgLog>>
         ELSE IF j <= Len(images) THEN
           /\ exports' = [exports EXCEPT ![k] =
                            [written EXCEPT !.pc = "image", !.i = j,
                                            !.pending = <<ImageFile(j, images[j])>>]]
           /\ UNCHANGED <<capturedImages, aggregatedCursorPoints, aggregatedCaptchaElements,
                          ptsLog, imgLog, response>>
         ELSE
           /\ ExportClear(k, written)
           /\ response' = [kind |-> "result", success |-> TRUE]
      /\ UNCHANGED <<activatedTabs, badgeText, filters, notif>>

----------------------------------------------------------------------------
(* background.js: the webRequest.onBeforeRequest listener and its filter.  *)

\* the listener: a response filter is created for an image request of an
\* activated tab (available: filterResponseData did not throw)
OnBeforeRequest(requestId, tabId, type, url, available) ==
  /\ filters' = IF tabId < 0 \/ tabId \notin activatedTabs THEN filters
                ELSE IF type # "image" THEN filters
                ELSE IF ~available THEN filters
                ELSE filters \cup {[url |-> url, tabId |-> tabId, requestId |-> requestId]}
  /\ UNCHANGED <<capturedImages, aggregatedCursorPoints, aggregatedCaptchaElements,
                 activatedTabs, badgeText, exports, notif, ptsLog, imgLog, response>>

\* filter.onstop without the size floor
OnFilterStopNoFloor(flt, body) ==
  LET mimeType == detectMimeFromBytes(body)
      before == GetOrEmpty(capturedImages, flt.tabId)
      pushed == Append(before, NetworkEntry(flt.url, mimeType, body))
      capped == CapImages(pushed)
  IN  /\ filters' = filters \ {flt}
      /\ IF mimeType = Null THEN
           UNCHANGED <<capturedImages, exports, imgLog, notif>>
         ELSE
           /\ capturedImages' = Put(capturedImages, flt.tabId, capped)
           /\ exports' = IF Len(pushed) > MAX_IMAGES_PER_TAB
                           THEN Detach(exports, flt.tabId, pushed) ELSE exports
           /\ LogImages(flt.tabId, before, pushed)
           /\ Notify(flt.tabId, Len(capped))
      /\ UNCHANGED <<aggregatedCursorPoints, aggregatedCaptchaElements, activatedTabs,
                     badgeText, ptsLog, response>>
\* filter.onstop with the concatenated chunks in body
OnFilterStop(flt, body) ==
  LET mimeType == detectMimeFromBytes(body)
      before == GetOrEmpty(capturedImages, flt.tabId)
      pushed == Append(before, NetworkEntry(flt.url, mimeType, body))
      capped == CapImages(pushed)
  IN  /\ filters' = filters \ {flt}
      /\ IF mimeType = Null THEN
           UNCHANGED <<capturedImages, exports, imgLog, notif>>
         ELSE IF body.length < 1000 THEN
           UNCHANGED <<capturedImages, exports, imgLog, notif>>
         ELSE
           /\ capturedImages' = Put(capturedImages, flt.tabId, capped)
           /\ exports' = IF Len(pushed) > MAX_IMAGES_PER_TAB
                           THEN Detach(exports, flt.tabId, pushed) ELSE exports
           /\ LogImages(flt.tabId, before, pushed)
           /\ Notify(flt.tabId, Len(capped))
      /\ UNCHANGED <<aggregatedCursorPoints, aggregatedCaptchaElements, activatedTabs,
                     badgeText, ptsLog, response>>

\* filter.onerror
OnFilterError(flt) ==
  /\ filters' = filters \ {flt}
  /\ UNCHANGED <<capturedImages, aggregatedCursorPoints, aggregatedCaptchaElements,
                 activatedTabs, badgeText, exports, notif, ptsLog, imgLog, response>>

----------------------------------------------------------------------------
(* Inputs: what the frames, the network and the host send.                 *)

Rect(left, top, right, bottom) == [left |-> left, top |-> top, right |-> right, bottom |-> bottom]
CaptchaRect == Rect(0, 0, 2, 2)
MovedRect == Rect(1, 1, 3, 3)

PointInputs(f) == {MkPoint(f, 1, 1, t, TRUE) : t \in 1..MaxT}

ElementBatches(f) ==
  {<<ElementRecord(f, "div.h-captcha", CaptchaRect)>>,
   <<ElementRecord(f, "div.h-captcha", MovedRect)>>,
   <<ElementRecord(f, "div.h-captcha", CaptchaRect), ElementRecord(f, "#captcha", CaptchaRect)>>,
   \* two elements for which getCssSelector gives the same selector
   <<ElementRecord(f, "div.h-captcha", CaptchaRect), ElementRecord(f, "div.h-captcha", MovedRect)>>}

\* response bodies: an image of every recognised type, and the bodies the
\* validation has to reject
PngBody == Body(<<137, 80, 78, 71, 13, 10, 26, 10, 0, 0, 0, 13>>, 1200, "png-1", "png-1-rest")
JpegBody == Body(<<255, 216, 255, 224, 0, 16, 74, 70, 73, 70, 0, 1>>, 1500, "jpeg-1", "jpeg-1-rest")
GifBody == Body(<<71, 73, 70, 56, 57, 97, 44, 1, 44, 1, 0, 0>>, 1000, "gif-1", "gif-1-rest")
WebpBody == Body(<<82, 73, 70, 70, 36, 8, 0, 0, 87, 69, 66, 80>>, 2000, "webp-1", "webp-1-rest")
BmpBody == Body(<<66, 77, 70, 4, 0, 0, 0, 0, 0, 0, 54, 0>>, 1100, "bmp-1", "bmp-1-rest")
WaveBody == Body(<<82, 73, 70, 70, 36, 8, 0, 0, 87, 65, 86, 69>>, 2000, "wave-1", "wave-1-rest")
ShortRiffBody == Body(<<82, 73, 70, 70, 2, 0, 0, 0, 87, 69>>, 10, "riff-1", "")
ShortJpegBody == Body(<<255, 216, 255, 224, 0, 16, 74>>, 7, "jpeg-2", "")
AlmostJpegBody == Body(<<255, 216, 0, 0, 0, 0, 0, 0, 0, 0, 0, 0>>, 1500, "bin-1", "bin-1-rest")
TinyPngBody == Body(<<137, 80, 78, 71, 13, 10, 26, 10, 0, 0, 0, 13>>, 999, "png-2", "png-2-rest")
HtmlBody == Body(<<60, 104, 116, 109, 108, 62, 60, 104, 101, 97, 100, 62>>, 5000, "html-1", "html-1-rest")

\* a response: its body with the content type the server declares for it
CoreResponses ==
  {[body |-> PngBody, declared |-> "image/png"],
   [body |-> JpegBody, declared |-> "image/png"],
   [body |-> TinyPngBody, declared |-> "image/png"],
   [body |-> HtmlBody, declared |-> "image/png"]}
NetResponses ==
  {[body |-> PngBody, declared |-> "image/png"],
   [body |-> JpegBody, declared |-> "image/png"],
   [body |-> GifBody, declared |-> "image/gif"],
   [body |-> WebpBody, declared |-> "application/octet-stream"],
   [body |-> BmpBody, declared |-> "image/bmp"],
   [body |-> WaveBody, declared |-> "image/webp"],
   [body |-> ShortRiffBody, declared |-> "image/webp"],
   [body |-> ShortJpegBody, declared |-> "image/jpeg"],
   [body |-> AlmostJpegBody, declared |-> "image/jpeg"],
   [body |-> TinyPngBody, declared |-> "image/png"],
   [body |-> HtmlBody, declared |-> "image/png"]}

ImageRequest == [url |-> "https://imgs.hcaptcha.com/a.png", type |-> "image", tabId |-> 1, available |-> TRUE]
Requests ==
  {ImageRequest,
   [url |-> "https://imgs.hcaptcha.com/a.png", type |-> "image", tabId |-> 2, available |-> TRUE],
   [url |-> "https://api.geetest.com/get.php", type |-> "xmlhttprequest", tabId |-> 1, available |-> TRUE],
   [url |-> "https://imgs.hcaptcha.com/a.png", type |-> "image", tabId |-> 1, available |-> FALSE],
   [url |-> "https://imgs.hcaptcha.com/a.png", type |-> "image", tabId |-> NoTabId, available |-> TRUE]}

\* an item of a captcha-inline-images message
InlineImage(f, type, dataUrl) ==
  [frameId |-> frameId(f), dataUrl |-> dataUrl, type |-> type, selector |-> "img",
   captchaSelector |-> "div.h-captcha"]
\* the data URL the network channel stores for PngBody, a data URL that agrees
\* with it on the first 200 characters only, and an unrelated one
InlinePng == ToDataUrl("image/png", PngBody)
InlinePngVariant == DataUrl("image/png", "png-1", "png-1-other", 1800)
InlineJpeg == DataUrl("image/jpeg", "jpeg-9", "jpeg-9-rest", 900)
InlineGif == DataUrl("image/gif", "gif-9", "gif-9-rest", 700)
InlineBatches(f) ==
  {<<InlineImage(f, "inline-image", InlinePng), InlineImage(f, "canvas", InlinePngVariant)>>,
   <<InlineImage(f, "canvas", InlinePngVariant)>>,
   <<InlineImage(f, "background-image", InlineJpeg), InlineImage(f, "inline-image", InlineGif)>>}

\* the forEach of exportSession over the cursor points: frameStats, an object
\* that gets a key for a frameId the first time a point has it
RECURSIVE CountFrames(_, _)
CountFrames(points, frameStats) ==
  IF points = << >> THEN frameStats
  ELSE
    LET p == Head(points)
        known == {i \in DOMAIN frameStats : frameStats[i].frameId = p.frameId}
    IN  CountFrames(Tail(points),
          IF known = {}
            THEN Append(frameStats, [frameId |-> p.frameId, url |-> p.frameUrl,
                                     depth |-> p.frameDepth, cursorPointCount |-> 1])
            ELSE [i \in DOMAIN frameStats |->
                    IF i \in known THEN [frameStats[i] EXCEPT !.cursorPointCount = @ + 1]
                    ELSE frameStats[i]])
\* a summary with an entry for every point
FrameStatsEveryPoint(points) ==
  [i \in DOMAIN points |-> [frameId |-> points[i].frameId, url |-> points[i].frameUrl,
                            depth |-> points[i].frameDepth, cursorPointCount |-> 1]]
\* Object.entries(frameStats).map(...): the frames list of exportSession
FrameStats(points) == CountFrames(points, << >>)
\* the frames list of exportSessionSync: one entry, for the frame itself
OwnFrameStats(f, points) ==
  <<[frameId |-> frameId(f), url |-> frameUrl(f),
     depth |-> frameDepth(f), cursorPointCount |-> Len(points)]>>

\* the sessionData of an export-session message
SessionData(f, points, elements, rounds, frames, trigger) ==
  [cursorPoints |-> points, captchaElements |-> elements,
   cursorPointCount |-> Len(points), rounds |-> rounds,
   frames |-> frames,
   sourceUrl |-> frameUrl(f),
   duration |-> IF points = << >> THEN 0 ELSE points[Len(points)].t, exportTrigger |-> trigger]
SessionDataInputs(f) ==
  {SessionData(f, <<MkPoint(f, 1, 1, 1, TRUE)>>, << >>, 1,
               FrameStats(<<MkPoint(f, 1, 1, 1, TRUE)>>), "input")}

----------------------------------------------------------------------------
(* The background script under arbitrary message arrival: a frame sends    *)
(* any message at any time.                                                *)

Event == /\ eventsLeft > 0
         /\ eventsLeft' = eventsLeft - 1
         /\ UNCHANGED <<frameVars, consented>>
\* a message of frame f: the frames of a closed tab are gone and send nothing
Sent(f) == /\ Event
           /\ TabOf(f) \notin removedTabs
           /\ UNCHANGED removedTabs

MsgActivatedState(f) ==
  \E activated \in BOOLEAN :
    /\ Sent(f)
    /\ OnActivatedState(TabOf(f), activated, isTopFrame(f))
    /\ last' = [isTopFrame |-> isTopFrame(f), frame |-> f, tabId |-> TabOf(f),
                action |-> "activated-state", activated |-> activated]

MsgCursorPoint(f) ==
  \E point \in PointInputs(f) :
    /\ Sent(f)
    /\ OnCursorPoint(TabOf(f), point)
    /\ last' = [frame |-> f, tabId |-> TabOf(f), action |-> "cursor-point", point |-> point]

MsgCaptchaElements(f) ==
  \E elements \in ElementBatches(f) :
    /\ Sent(f)
    /\ OnCaptchaElements(TabOf(f), elements)
    /\ last' = [elements |-> elements, frame |-> f, tabId |-> TabOf(f),
                action |-> "captcha-elements"]

MsgInlineImages(f) ==
  \E images \in InlineBatches(f) :
    /\ Sent(f)
    /\ OnInlineImages(TabOf(f), images)
    /\ last' = [images |-> images, frame |-> f, tabId |-> TabOf(f),
                action |-> "captcha-inline-images"]

MsgClearCursorData(f) ==
  /\ Sent(f)
  /\ OnClearCursorData(TabOf(f))
  /\ last' = [frame |-> f, tabId |-> TabOf(f), action |-> "clear-cursor-data"]

MsgGetAggregatedData(f) ==
  /\ Sent(f)
  /\ OnGetAggregatedData(TabOf(f))
  /\ last' = [frame |-> f, tabId |-> TabOf(f), action |-> "get-aggregated-data"]

MsgRecordingBadge(f) ==
  \E started \in BOOLEAN :
    /\ Sent(f)
    /\ OnRecordingBadge(TabOf(f), started, isTopFrame(f))
    /\ last' = [frame |-> f, tabId |-> TabOf(f),
                action |-> IF started THEN "recording-started" ELSE "recording-stopped"]

MsgGetCapturedImages(f) ==
  /\ Sent(f)
  /\ OnGetCapturedImages(TabOf(f))
  /\ last' = [frame |-> f, tabId |-> TabOf(f), action |-> "get-captured-images"]

MsgClearImages(f) ==
  /\ Sent(f)
  /\ OnClearImages(TabOf(f))
  /\ last' = [frame |-> f, tabId |-> TabOf(f), action |-> "clear-images"]

MsgGetActivatedState(f) ==
  /\ Sent(f)
  /\ OnGetActivatedState(TabOf(f))
  /\ last' = [frame |-> f, tabId |-> TabOf(f), action |-> "get-activated-state"]

MsgUnhandled(f) ==
  \E action \in {"armed-state", "get-armed-state"} :
    /\ Sent(f)
    /\ OnUnhandled(TabOf(f))
    /\ last' = [frame |-> f, tabId |-> TabOf(f), action |-> action]

MsgExportSession(f) ==
  \E sessionData \in SessionDataInputs(f) :
    /\ Sent(f)
    /\ OnExportSession(TabOf(f), sessionData, 0)
    /\ last' = [frame |-> f, tabId |-> TabOf(f), action |-> "export-session"]

TabRemoved(tabId) ==
  /\ Event
  /\ tabId \notin removedTabs
  /\ OnTabRemoved(tabId)
  /\ removedTabs' = removedTabs \cup {tabId}
  /\ last' = [tabId |-> tabId, action |-> "tabs.onRemoved"]

WebRequest(requests) ==
  \E r \in requests :
    /\ Event
    /\ r.tabId \notin removedTabs
    /\ OnBeforeRequest(eventsLeft, r.tabId, r.type, r.url, r.available)
    /\ UNCHANGED removedTabs
    /\ last' = [type |-> r.type, tabId |-> r.tabId, action |-> "webRequest.onBeforeRequest"]

FilterStop(responses) ==
  \E flt \in filters : \E r \in responses :
    /\ OnFilterStop(flt, r.body)
    /\ last' = [body |-> r.body, url |-> flt.url, tabId |-> flt.tabId,
                action |-> "filter.onstop", declared |-> r.declared,
                log |-> IF detectMimeFromBytes(r.body) = Null THEN "Skipping non-image response"
                        ELSE IF r.body.length < 1000 THEN "Skipping tiny image"
                        ELSE "Captured"]
    /\ UNCHANGED <<eventsLeft, frameVars, removedTabs, consented>>

FilterError ==
  \E flt \in filters :
    /\ OnFilterError(flt)
    /\ last' = [tabId |-> flt.tabId, action |-> "filter.onerror"]
    /\ UNCHANGED <<eventsLeft, frameVars, removedTabs, consented>>

DownloadSettles ==
  \E k \in DOMAIN exports, ok \in BOOLEAN :
    /\ ExportContinue(k, ok)
    /\ last' = [tabId |-> exports[k].tabId, action |-> "download", ok |-> ok, export |-> k]
    /\ UNCHANGED <<eventsLeft, frameVars, removedTabs, consented>>

\* every frame sends every message
Next ==
  \/ \E f \in Frames :
       \/ MsgActivatedState(f)
       \/ MsgCursorPoint(f)
       \/ MsgCaptchaElements(f)
       \/ MsgInlineImages(f)
       \/ MsgClearCursorData(f)
       \/ MsgGetAggregatedData(f)
       \/ MsgRecordingBadge(f)
       \/ MsgGetCapturedImages(f)
       \/ MsgClearImages(f)
       \/ MsgGetActivatedState(f)
       \/ MsgUnhandled(f)
       \/ MsgExportSession(f)
  \/ \E tabId \in Tabs : TabRemoved(tabId)
  \/ WebRequest(Requests)
  \/ FilterStop(CoreResponses)
  \/ FilterError
  \/ DownloadSettles

Init == InitWith(MaxSpecEvents)

Spec == Init /\ [][Next]_vars

\* two tabs: the top frame of tab 1 and the top frame of tab 2 send every
\* message, and both tabs have requests, exports and a close
NextTabs ==
  \/ \E f \in {"top", "other"} :
       \/ MsgActivatedState(f)
       \/ MsgCursorPoint(f)
       \/ MsgCaptchaElements(f)
       \/ MsgInlineImages(f)
       \/ MsgClearCursorData(f)
       \/ MsgGetAggregatedData(f)
       \/ MsgRecordingBadge(f)
       \/ MsgGetCapturedImages(f)
       \/ MsgClearImages(f)
       \/ MsgGetActivatedState(f)
       \/ MsgUnhandled(f)
       \/ MsgExportSession(f)
  \/ \E tabId \in Tabs : TabRemoved(tabId)
  \/ WebRequest(Requests)
  \/ FilterStop(CoreResponses)
  \/ FilterError
  \/ DownloadSettles

SpecTabs == InitWith(MaxTabEvents) /\ [][NextTabs]_vars

\* the cursor-point list of tab 1 and everything that writes it
NextPoints ==
  \/ \E f \in {"top", "child"} : MsgCursorPoint(f)
  \/ MsgActivatedState("top")
  \/ MsgClearCursorData("top")
  \/ MsgGetAggregatedData("top")
  \/ MsgExportSession("top")
  \/ TabRemoved(1)
  \/ DownloadSettles

SpecPoints == InitWith(MaxEvents) /\ [][NextPoints]_vars

\* the image list of tab 1 and everything that writes it
NextImages ==
  \/ MsgActivatedState("top")
  \/ MsgInlineImages("top")
  \/ MsgGetCapturedImages("top")
  \/ MsgClearImages("top")
  \/ MsgExportSession("top")
  \/ TabRemoved(1)
  \/ WebRequest({ImageRequest})
  \/ FilterStop(CoreResponses)
  \/ FilterError
  \/ DownloadSettles

SpecImages == InitWith(MaxImageEvents) /\ [][NextImages]_vars

\* the network channel alone, with every kind of response body
NextNetwork ==
  \/ MsgActivatedState("top")
  \/ TabRemoved(1)
  \/ WebRequest(Requests)
  \/ FilterStop(NetResponses)
  \/ FilterError

SpecNetwork == InitWith(MaxEvents) /\ [][NextNetwork]_vars

\* the three lists of tab 1 under the messages of its top frame and of a
\* child frame, with every way the element list is reset
NextElements ==
  \/ \E f \in {"top", "child"} :
       \/ MsgActivatedState(f)
       \/ MsgCaptchaElements(f)
  \/ MsgCursorPoint("top")
  \/ MsgInlineImages("top")
  \/ MsgClearCursorData("top")
  \/ MsgExportSession("top")
  \/ TabRemoved(1)
  \/ DownloadSettles

SpecElements == InitWith(MaxElementEvents) /\ [][NextElements]_vars

----------------------------------------------------------------------------
(* main.js: the content script of a frame. A function of the script is an  *)
(* operator on a context c: the frame's variables (c.fr), the messages the *)
(* call has sent (c.out) and the exportSession calls it has started        *)
(* (c.spawn).                                                              *)

Ctx(f) == [fr |-> frame[f], out |-> << >>, spawn |-> << >>]
\* browser.runtime.sendMessage(msg)
Send(c, msg) == [c EXCEPT !.out = Append(@, msg)]

\* the elements of a document that match a CAPTCHA selector, each with the
\* inline images, canvases and background images inside it
PlainCaptcha ==
  [selector |-> "div.h-captcha", images |-> << >>, rect |-> CaptchaRect, id |-> "plain"]
InlineCaptcha ==
  [selector |-> "#captcha", images |-> <<[dataUrl |-> InlinePng, type |-> "inline-image"],
                [dataUrl |-> InlinePngVariant, type |-> "canvas"]>>, rect |-> CaptchaRect,
   id |-> "inline"]
DomStates == {<< >>, <<PlainCaptcha>>, <<InlineCaptcha>>}

\* the loop of extractAllInlineCaptchaImages over the images of one element
RECURSIVE AddImages(_, _, _, _)
AddImages(f, captcha, images, allImages) ==
  IF images = << >> THEN allImages
  ELSE AddImages(f, captcha, Tail(images),
         IF \E j \in DOMAIN allImages :
              Substring200(allImages[j].dataUrl) = Substring200(Head(images).dataUrl)
           THEN allImages
           ELSE Append(allImages,
                       [InlineImage(f, Head(images).type, Head(images).dataUrl)
                          EXCEPT !.captchaSelector = captcha.selector]))
RECURSIVE ExtractFrom(_, _, _)
ExtractFrom(f, elements, allImages) ==
  IF elements = << >> THEN allImages
  ELSE ExtractFrom(f, Tail(elements),
                   AddImages(f, Head(elements), Head(elements).element.images, allImages))
extractAllInlineCaptchaImages(f, c) ==
  LET allImages == ExtractFrom(f, c.fr.captchaElements, << >>)
  IN  IF allImages # << >>
        THEN Send(c, [images |-> allImages, action |-> "captcha-inline-images", proc |-> 0])
        ELSE c

\* detectCaptchaElements() in a document holding the elements d
detectCaptchaElements(f, c, d) ==
  LET found == [i \in 1..Len(d) |->
                  [selector |-> d[i].selector, rect |-> d[i].rect, element |-> d[i]]]
      c1 == [c EXCEPT !.fr.captchaElements = found]
  IN  IF found # << >>
        THEN extractAllInlineCaptchaImages(f,
               Send(c1, [elements |-> [i \in 1..Len(found) |->
                                         ElementRecord(f, found[i].selector, found[i].rect)],
                         action |-> "captcha-elements", proc |-> 0]))
        ELSE c1

\* the test with the right and bottom borders left out
isOverCaptchaInside(captchaElements, x, y) ==
  \E i \in DOMAIN captchaElements :
    LET r == captchaElements[i].rect
    IN  x >= r.left /\ x < r.right /\ y >= r.top /\ y < r.bottom
isOverCaptcha(captchaElements, x, y) ==
  \E i \in DOMAIN captchaElements :
    LET r == captchaElements[i].rect
    IN  x >= r.left /\ x <= r.right /\ y >= r.top /\ y <= r.bottom

\* the inline extraction is repeated at most every 2000 ms; the clock of the
\* model counts seconds
InlineDebounce == 2

\* the configuration with the inactivity export switched on
EXPORT_CONFIG_InactivityOn ==
  [onNavigation |-> TRUE, intervalEnabled |-> TRUE, onInactivity |-> TRUE,
   inactivityTimeoutMs |-> 8]
\* EXPORT_CONFIG, with inactivityTimeoutMs (8000) in the seconds of the clock
EXPORT_CONFIG ==
  [onNavigation |-> TRUE, intervalEnabled |-> TRUE, onInactivity |-> FALSE,
   inactivityTimeoutMs |-> 8]

\* resetInactivityTimer: inactivityTimer is the time at which the pending
\* setTimeout is due, 0 when none is pending
resetInactivityTimer(f, c) ==
  IF ~isTopFrame(f) THEN c
  ELSE IF ~EXPORT_CONFIG.onInactivity THEN c
  ELSE [c EXCEPT !.fr.inactivityTimer = now + EXPORT_CONFIG.inactivityTimeoutMs]

\* handleMouseMove with the absolute time in the point
handleMouseMoveAbsoluteTime(f, c, x, y) ==
  IF ~c.fr.isRecording THEN c
  ELSE
    LET overCaptcha == isOverCaptcha(c.fr.captchaElements, x, y)
        point == MkPoint(f, x, y, now, overCaptcha)
        c1 == Send([c EXCEPT !.fr.cursorPoints = Append(@, point)],
                   [action |-> "cursor-point", point |-> point, proc |-> 0])
    IN  c1
handleMouseMove(f, c, x, y) ==
  IF ~c.fr.isRecording THEN c
  ELSE
    LET overCaptcha == isOverCaptcha(c.fr.captchaElements, x, y)
        point == MkPoint(f, x, y, now - c.fr.recordingStartTime, overCaptcha)
        c1 == Send([c EXCEPT !.fr.cursorPoints = Append(@, point)],
                   [action |-> "cursor-point", point |-> point, proc |-> 0])
        c2 == resetInactivityTimer(f, [c1 EXCEPT !.fr.lastCursorTime = now])
    IN  IF ~(isTopFrame(f) /\ overCaptcha) THEN c1
        ELSE IF /\ c2.fr.hasUserInteraction
                /\ c2.fr.captchaElements # << >>
                /\ \/ c2.fr.lastInlineExtractionTime = 0
                   \/ now - c2.fr.lastInlineExtractionTime > InlineDebounce
          THEN extractAllInlineCaptchaImages(f, [c2 EXCEPT !.fr.lastInlineExtractionTime = now])
        ELSE c2

\* markInteraction: the click, mousedown and keydown listener
markInteraction(f, c) ==
  IF c.fr.hasUserInteraction THEN c
  ELSE LET c1 == [c EXCEPT !.fr.hasUserInteraction = TRUE]
       IN  IF c1.fr.isRecording /\ c1.fr.captchaElements # << >>
             THEN extractAllInlineCaptchaImages(f, c1) ELSE c1

\* startRecording without the reset of cursorPoints and roundCount
startRecordingKeepsSession(f, c, d) ==
  IF c.fr.isRecording THEN c
  ELSE
    LET c1 == [c EXCEPT !.fr.isRecording = TRUE, !.fr.recordingStartTime = now,
                        !.fr.lastImageCount = 0, !.fr.lastCursorTime = now]
        c2 == detectCaptchaElements(f, c1, d)
        c3 == resetInactivityTimer(f,
                [c2 EXCEPT !.fr.mousemove = TRUE,
                           !.fr.indicatorEl = IF isTopFrame(f) THEN TRUE ELSE @,
                           !.fr.intervalExportTimer = IF isTopFrame(f) THEN TRUE ELSE @])
    IN  Send(c3, [isTopFrame |-> isTopFrame(f), action |-> "recording-started", proc |-> 0])
startRecording(f, c, d) ==
  IF c.fr.isRecording THEN c
  ELSE
    LET c1 == [c EXCEPT !.fr.isRecording = TRUE, !.fr.recordingStartTime = now,
                        !.fr.cursorPoints = << >>, !.fr.roundCount = 1,
                        !.fr.lastImageCount = 0, !.fr.lastCursorTime = now]
        c2 == detectCaptchaElements(f, c1, d)
        c3 == resetInactivityTimer(f,
                [c2 EXCEPT !.fr.mousemove = TRUE,
                           !.fr.indicatorEl = IF isTopFrame(f) THEN TRUE ELSE @,
                           !.fr.intervalExportTimer = IF isTopFrame(f) THEN TRUE ELSE @])
    IN  Send(c3, [isTopFrame |-> isTopFrame(f), action |-> "recording-started", proc |-> 0])

stopRecording(f, c) ==
  IF ~c.fr.isRecording THEN c
  ELSE [c EXCEPT !.fr.isRecording = FALSE, !.fr.mousemove = FALSE,
                 !.fr.inactivityTimer = IF isTopFrame(f) THEN 0 ELSE @,
                 !.fr.intervalExportTimer = IF isTopFrame(f) THEN FALSE ELSE @,
                 !.fr.indicatorEl = IF isTopFrame(f) THEN FALSE ELSE @]

arm(f, c, d) ==
  IF c.fr.isArmed THEN c
  ELSE
    LET c1 == detectCaptchaElements(f, [c EXCEPT !.fr.isArmed = TRUE, !.fr.captchaObserver = TRUE], d)
        c2 == Send(c1, [action |-> "armed-state", proc |-> 0])
    IN  IF c2.fr.captchaElements # << >> THEN startRecording(f, c2, d) ELSE c2

\* disarm without the stop of the recording
disarmKeepsRecording(f, c) ==
  IF ~c.fr.isArmed THEN c
  ELSE Send([c EXCEPT !.fr.isArmed = FALSE, !.fr.captchaObserver = FALSE],
            [action |-> "armed-state", proc |-> 0])
disarm(f, c) ==
  IF ~c.fr.isArmed THEN c
  ELSE
    LET c1 == stopRecording(f, [c EXCEPT !.fr.isArmed = FALSE])
    IN  Send([c1 EXCEPT !.fr.captchaObserver = FALSE], [action |-> "armed-state", proc |-> 0])

\* resetRecording without the reset of roundCount
resetRecordingKeepsRounds(f, c) ==
  Send([c EXCEPT !.fr.cursorPoints = << >>, !.fr.captchaElements = << >>,
                 !.fr.lastImageCount = 0, !.fr.lastCursorTime = 0, !.fr.isRecording = FALSE],
       [action |-> "clear-cursor-data", proc |-> 0])
resetRecording(f, c) ==
  Send([c EXCEPT !.fr.cursorPoints = << >>, !.fr.captchaElements = << >>, !.fr.roundCount = 0,
                 !.fr.lastImageCount = 0, !.fr.lastCursorTime = 0, !.fr.isRecording = FALSE],
       [action |-> "clear-cursor-data", proc |-> 0])

\* the recording state of a frame: what an export attempt is said to leave
\* alone when it is declined
SessionState(fr) ==
  [isRecording |-> fr.isRecording, cursorPoints |-> fr.cursorPoints,
   captchaElements |-> fr.captchaElements, roundCount |-> fr.roundCount,
   intervalExportTimer |-> fr.intervalExportTimer]

\* exportSession without its test of isTopFrame
exportSessionAnyFrame(f, c, then) ==
  LET c1 == stopRecording(f, c)
      p == Len(procs) + Len(c.spawn) + 1
  IN  [Send(c1, [action |-> "get-captured-images", proc |-> p])
         EXCEPT !.spawn = Append(@, [frame |-> f, before |-> SessionState(c.fr), pc |-> "images",
                                      then |-> then, replied |-> FALSE, reply |-> NoResponse,
                                      capturedImageCount |-> 0, result |-> "pending"])]

\* exportSession() up to its first await; then is what the caller does with
\* the promise: "reset" (autoExportAndReset), "resetIfArmed" (the shortcut),
\* "log" (the interval timer: a console.log), "none" (page hidden or
\* caplog.export()). For the statement of the properties the call remembers
\* the recording state it was made in (before).
exportSession(f, c, then) ==
  IF ~isTopFrame(f) THEN c
  ELSE
    LET c1 == stopRecording(f, c)
        p == Len(procs) + Len(c.spawn) + 1
    IN  [Send(c1, [action |-> "get-captured-images", proc |-> p])
           EXCEPT !.spawn = Append(@, [frame |-> f, before |-> SessionState(c.fr), pc |-> "images",
                                        then |-> then, replied |-> FALSE,
                                        reply |-> NoResponse, capturedImageCount |-> 0,
                                        result |-> "pending"])]

autoExportAndReset(f, c) ==
  IF ~isTopFrame(f) THEN c ELSE exportSession(f, c, "reset")

exportSessionSync(f, c) ==
  IF ~isTopFrame(f) THEN c
  ELSE Send(c, [action |-> "export-session", data |-> SessionData(f, c.fr.cursorPoints,
                                     [i \in 1..Len(c.fr.captchaElements) |->
                                        ElementRecord(f, c.fr.captchaElements[i].selector,
                                                      c.fr.captchaElements[i].rect)],
                                     c.fr.roundCount,
                                     OwnFrameStats(f, c.fr.cursorPoints), "navigation"),
                proc |-> 0])

\* the callback of the setTimeout of resetInactivityTimer, run at time t in a
\* document holding the elements d
inactivityCallback(f, c, d, t) ==
  IF ~(c.fr.isRecording /\ c.fr.cursorPoints # << >>) THEN c
  ELSE
    LET c1 == detectCaptchaElements(f, c, d)
    IN  IF c1.fr.captchaElements = << >> THEN autoExportAndReset(f, c1)
        ELSE IF t - c1.fr.lastCursorTime > EXPORT_CONFIG.inactivityTimeoutMs
          THEN autoExportAndReset(f, c1)
        ELSE c1

\* the MutationObserver callback, the document now holding the elements d
observerCallback(f, c, d) ==
  LET hadCaptcha == c.fr.captchaElements # << >>
      c1 == detectCaptchaElements(f, c, d)
      hasCaptcha == c1.fr.captchaElements # << >>
      c2 == IF ~hadCaptcha /\ hasCaptcha /\ c1.fr.isArmed /\ ~c1.fr.isRecording
              THEN startRecording(f, c1, d) ELSE c1
  IN  IF hadCaptcha /\ ~hasCaptcha /\ c2.fr.isRecording /\ isTopFrame(f)
        THEN autoExportAndReset(f, c2) ELSE c2

\* what the caller of exportSession chained on the promise
AfterExport(f, c, then) ==
  IF then = "reset" THEN resetRecording(f, c)
  ELSE IF then = "resetIfArmed" /\ c.fr.isArmed THEN resetRecording(f, c)
  ELSE c

----------------------------------------------------------------------------
(* The background script fed by the content scripts of the top frame and   *)
(* of a child frame of tab 1. The events are the user's and the page's:    *)
(* caplog.arm() and caplog.disarm() (the toolbar button's toggle-activate  *)
(* message is not an action main.js listens for, so these are the calls    *)
(* that arm a frame), DOM mutations, pointer moves, clicks, the export      *)
(* shortcut, the interval timer, visibilitychange, beforeunload and the    *)
(* close of the tab. Messages, replies, notifications and downloads move   *)
(* in steps of their own.                                                  *)

SysFrames == {"top", "child"}

Commit(f, c) ==
  /\ frame' = [frame EXCEPT ![f] = c.fr]
  /\ chan' = [chan EXCEPT ![f] = @ \o c.out]
  /\ procs' = procs \o c.spawn

\* an event listener of frame f runs and leaves the context c
FrameEvent(f, name, c) ==
  /\ eventsLeft > 0
  /\ eventsLeft' = eventsLeft - 1
  /\ loaded[f]
  /\ Commit(f, c)
  /\ last' = [frame |-> f, tabId |-> TabOf(f), action |-> name]
  /\ UNCHANGED <<bgVars, response, notif, logVars, loaded, now, consented>>

ConsoleArm(f) ==
  /\ FrameEvent(f, "caplog.arm", arm(f, Ctx(f), dom[f]))
  /\ UNCHANGED dom

ConsoleDisarm(f) ==
  /\ frame[f].isArmed
  /\ FrameEvent(f, "caplog.disarm", disarm(f, Ctx(f)))
  /\ UNCHANGED dom

\* the page changes the CAPTCHA elements of the document
DomMutation(f) ==
  \E d \in DomStates \ {dom[f]} :
    /\ dom' = [dom EXCEPT ![f] = d]
    /\ FrameEvent(f, "mutation",
                  IF frame[f].captchaObserver THEN observerCallback(f, Ctx(f), d) ELSE Ctx(f))

MouseMove(f) ==
  \E xy \in {<<1, 1>>, <<5, 5>>} :
    /\ frame[f].mousemove
    /\ FrameEvent(f, "mousemove", handleMouseMove(f, Ctx(f), xy[1], xy[2]))
    /\ UNCHANGED dom

Click(f) ==
  /\ ~frame[f].hasUserInteraction
  /\ FrameEvent(f, "click", markInteraction(f, Ctx(f)))
  /\ UNCHANGED dom

\* keydown of Ctrl+Shift+E in the top frame: markInteraction, then the shortcut
ShortcutKey ==
  LET c == markInteraction("top", Ctx("top"))
  IN  /\ FrameEvent("top", "keydown",
                    IF c.fr.isRecording THEN exportSession("top", c, "resetIfArmed") ELSE c)
      /\ UNCHANGED dom

\* the callback of setInterval(..., EXPORT_CONFIG.intervalMs)
IntervalTick ==
  LET c == Ctx("top")
  IN  /\ frame["top"].intervalExportTimer
      /\ FrameEvent("top", "interval",
                    IF c.fr.isRecording /\ c.fr.cursorPoints # << >>
                      THEN exportSession("top", c, "log") ELSE c)
      /\ UNCHANGED dom

\* visibilitychange with visibilityState hidden
VisibilityHidden ==
  LET c == Ctx("top")
  IN  /\ FrameEvent("top", "visibilitychange",
                    IF c.fr.isRecording /\ c.fr.cursorPoints # << >>
                      THEN exportSession("top", c, "none") ELSE c)
      /\ UNCHANGED dom

BeforeUnload ==
  LET c == Ctx("top")
  IN  /\ FrameEvent("top", "beforeunload",
                    IF c.fr.isRecording /\ c.fr.cursorPoints # << >>
                      THEN exportSessionSync("top", c) ELSE c)
      /\ UNCHANGED dom

\* time passes
Tick ==
  /\ eventsLeft > 0
  /\ eventsLeft' = eventsLeft - 1
  /\ now <= MaxT
  /\ now' = now + 1
  /\ last' = [action |-> "tick"]
  /\ UNCHANGED <<bgVars, response, notif, logVars, loaded, frame, dom, chan, procs, consented>>

\* the reply to the message of an exportSession call reaches the call
Reply(p, value) ==
  IF p \in DOMAIN procs
    THEN [procs EXCEPT ![p].replied = TRUE, ![p].reply = value]
    ELSE procs

\* the background script's onMessage listener runs for the oldest message
\* of frame f that is on its way
Deliver(f) ==
  LET m == Head(chan[f])
      tabId == TabOf(f)
      handled == [frame |-> f, tabId |-> tabId, action |-> m.action]
  IN  /\ chan[f] # << >>
      /\ chan' = [chan EXCEPT ![f] = Tail(@)]
      /\ CASE m.action = "cursor-point" ->
                /\ OnCursorPoint(tabId, m.point)
                /\ last' = [frame |-> f, tabId |-> tabId, action |-> m.action, point |-> m.point]
                /\ procs' = procs
           [] m.action = "captcha-elements" ->
                /\ OnCaptchaElements(tabId, m.elements)
                /\ last' = [elements |-> m.elements, frame |-> f, tabId |-> tabId,
                            action |-> m.action]
                /\ procs' = procs
           [] m.action = "captcha-inline-images" ->
                /\ OnInlineImages(tabId, m.images)
                /\ last' = [images |-> m.images, frame |-> f, tabId |-> tabId, action |-> m.action]
                /\ procs' = procs
           [] m.action = "clear-cursor-data" ->
                /\ OnClearCursorData(tabId)
                /\ last' = handled
                /\ procs' = procs
           [] m.action = "recording-started" ->
                /\ OnRecordingBadge(tabId, TRUE, m.isTopFrame)
                /\ last' = handled
                /\ procs' = procs
           [] m.action = "get-captured-images" ->
                /\ OnGetCapturedImages(tabId)
                /\ last' = handled
                /\ procs' = Reply(m.proc, response')
           [] m.action = "get-aggregated-data" ->
                /\ OnGetAggregatedData(tabId)
                /\ last' = handled
                /\ procs' = Reply(m.proc, response')
           [] m.action = "export-session" ->
                /\ OnExportSession(tabId, m.data, m.proc)
                /\ last' = handled
                /\ procs' = procs
           [] OTHER ->
                /\ OnUnhandled(tabId)
                /\ last' = handled
                /\ procs' = procs
      /\ UNCHANGED <<eventsLeft, loaded, frame, dom, now, removedTabs, consented>>

\* exportSession (main.js) runs on after the reply it awaited
Resume(p) ==
  LET q == procs[p]
      f == q.frame
      c == Ctx(f)
      points == q.reply.cursorPoints
      elements == q.reply.captchaElements
      Finish(result) ==
        LET c1 == AfterExport(f, c, q.then)
        IN  /\ frame' = [frame EXCEPT ![f] = c1.fr]
            /\ chan' = [chan EXCEPT ![f] = @ \o c1.out]
            /\ procs' = [procs EXCEPT ![p].pc = "done", ![p].result = result, ![p].replied = FALSE]
      Ask(msg, pc, count) ==
        /\ chan' = [chan EXCEPT ![f] = Append(@, msg)]
        /\ procs' = [procs EXCEPT ![p].pc = pc, ![p].replied = FALSE,
                                  ![p].capturedImageCount = count]
        /\ frame' = frame
  IN  /\ q.replied
      /\ q.pc # "done"
      /\ loaded[f]
      /\ CASE q.pc = "images" ->
                Ask([action |-> "get-aggregated-data", proc |-> p], "data", Len(q.reply.images))
           [] q.pc = "data" ->
                IF q.capturedImageCount = 0 THEN Finish("declined")
                ELSE IF points = << >> /\ elements = << >> THEN Finish("declined")
                ELSE Ask([action |-> "export-session",
                          data |-> SessionData(f, points, elements, frame[f].roundCount,
                                               FrameStats(points), "undefined"),
                          proc |-> p],
                         "export", q.capturedImageCount)
           [] q.pc = "export" ->
                Finish(IF q.reply.success THEN "exported" ELSE "failed")
      /\ last' = [frame |-> f, tabId |-> TabOf(f), action |-> "resume"]
      /\ UNCHANGED <<bgVars, response, eventsLeft, notif, logVars, loaded, dom, now, consented>>

\* a listener in which every new image counts as a round
onImageCapturedEveryImage(f, fr, imageCount) ==
  IF isTopFrame(f) /\ imageCount > fr.lastImageCount
    THEN [fr EXCEPT !.lastImageCount = imageCount,
                    !.roundCount = IF fr.isRecording /\ imageCount - fr.lastImageCount >= 1
                                     THEN @ + 1 ELSE @]
    ELSE fr

\* main.js: the captcha-image-captured branch of the onMessage listener of
\* frame f, on the frame's variables fr
onImageCaptured(f, fr, imageCount) ==
  IF isTopFrame(f) /\ imageCount > fr.lastImageCount
    THEN resetInactivityTimer(f,
           [fr |-> [fr EXCEPT !.lastImageCount = imageCount,
                              !.roundCount = IF fr.isRecording /\ imageCount - fr.lastImageCount >= 3
                                               THEN @ + 1 ELSE @],
            out |-> << >>, spawn |-> << >>]).fr
    ELSE fr

\* the onMessage listeners of the frames of tab 1 run for a
\* captcha-image-captured message
NotifDeliver ==
  LET imageCount == Head(notif[1])
  IN  /\ notif[1] # << >>
      /\ notif' = [notif EXCEPT ![1] = Tail(@)]
      /\ frame' = [f \in Frames |->
                     IF loaded[f] /\ TabOf(f) = 1
                       THEN onImageCaptured(f, frame[f], imageCount) ELSE frame[f]]
      /\ last' = [frame |-> "top", tabId |-> 1, imageCount |-> imageCount,
                  action |-> "captcha-image-captured"]
      /\ UNCHANGED <<bgVars, response, eventsLeft, logVars, loaded, dom, chan, procs, now, consented>>

\* a download of the background script's exportSession settles
SysDownloadSettles ==
  \E k \in DOMAIN exports, ok \in BOOLEAN :
    /\ ExportContinue(k, ok)
    /\ procs' = IF exports'[k].pc \in {"done", "failed"}
                  THEN Reply(exports[k].proc, response') ELSE procs
    /\ last' = [tabId |-> exports[k].tabId, action |-> "download", ok |-> ok, export |-> k]
    /\ UNCHANGED <<eventsLeft, loaded, frame, dom, chan, now, removedTabs, consented>>

\* the tab is closed: its content scripts are gone, the messages they sent
\* are still handled
TabClose ==
  /\ eventsLeft > 0
  /\ eventsLeft' = eventsLeft - 1
  /\ 1 \notin removedTabs
  /\ OnTabRemoved(1)
  /\ removedTabs' = removedTabs \cup {1}
  /\ loaded' = [f \in Frames |-> loaded[f] /\ TabOf(f) # 1]
  /\ last' = [tabId |-> 1, action |-> "tabs.onRemoved"]
  /\ UNCHANGED <<frame, dom, chan, procs, now, consented>>

NextSys ==
  \/ \E f \in SysFrames :
       \/ ConsoleArm(f)
       \/ ConsoleDisarm(f)
       \/ DomMutation(f)
       \/ MouseMove(f)
       \/ Click(f)
       \/ Deliver(f)
  \/ ShortcutKey
  \/ IntervalTick
  \/ VisibilityHidden
  \/ BeforeUnload
  \/ Tick
  \/ \E p \in DOMAIN procs : Resume(p)
  \/ NotifDeliver
  \/ SysDownloadSettles
  \/ TabClose

InitSys ==
  /\ InitBackground(MaxSysEvents)
  /\ InitFrames(SysFrames)
  /\ dom \in [Frames -> DomStates]
  /\ dom["child"] = << >>
  /\ dom["other"] = << >>

SpecSys == InitSys /\ [][NextSys]_vars

\* the network channel of a tab whose top frame runs the content script and
\* receives the captcha-image-captured notifications
NextAdmission ==
  \/ MsgActivatedState("top")
  \/ TabClose
  \/ WebRequest(Requests)
  \/ FilterStop(NetResponses)
  \/ FilterError
  \/ NotifDeliver

InitAdmission ==
  /\ InitBackground(MaxEvents)
  /\ InitFrames({"top"})
  /\ dom = [f \in Frames |-> << >>]

SpecAdmission == InitAdmission /\ [][NextAdmission]_vars

----------------------------------------------------------------------------
(* The export triggers in every frame: the content script runs in the top  *)
(* frame and in the child frame alike, and each of them has the console    *)
(* API, the keydown listener and the observer.                             *)

\* window.caplog.export() in the console of frame f
ConsoleExport(f) ==
  /\ FrameEvent(f, "caplog.export", exportSession(f, Ctx(f), "none"))
  /\ UNCHANGED dom

\* keydown of Ctrl+Shift+E in frame f: markInteraction, then the shortcut
\* listener, which returns at once in a frame that is not the top frame
KeyDown(f) ==
  LET c == markInteraction(f, Ctx(f))
  IN  /\ FrameEvent(f, "keydown",
                    IF isTopFrame(f) /\ c.fr.isRecording
                      THEN exportSession(f, c, "resetIfArmed") ELSE c)
      /\ UNCHANGED dom

NextTriggers ==
  \/ \E f \in SysFrames :
       \/ ConsoleArm(f)
       \/ DomMutation(f)
       \/ MouseMove(f)
       \/ ConsoleExport(f)
       \/ KeyDown(f)
       \/ Deliver(f)
  \/ IntervalTick
  \/ VisibilityHidden
  \/ BeforeUnload
  \/ \E p \in DOMAIN procs : Resume(p)
  \/ SysDownloadSettles

InitTriggers ==
  /\ InitBackground(MaxTriggerEvents)
  /\ InitFrames(SysFrames)
  /\ dom \in [Frames -> DomStates]
  /\ dom["other"] = << >>

SpecTriggers == InitTriggers /\ [][NextTriggers]_vars

\* an export of the top frame while the child frame records: the frames are
\* armed, the pointer moves, the shortcut is pressed in the top frame, and
\* the messages of the two frames are handled in any order
NextRace ==
  \/ \E f \in SysFrames :
       \/ ConsoleArm(f)
       \/ MouseMove(f)
       \/ Deliver(f)
  \/ ShortcutKey
  \/ \E p \in DOMAIN procs : Resume(p)
  \/ SysDownloadSettles

InitRace ==
  /\ InitBackground(MaxRaceEvents)
  /\ InitFrames(SysFrames)
  /\ dom \in [Frames -> DomStates]
  /\ dom["other"] = << >>

SpecRace == InitRace /\ [][NextRace]_vars

\* recordings that are stopped and started again: the frames are armed and
\* disarmed from the console, the pointer moves, time passes, and the cursor
\* points of each frame are handled in the order they were sent
NextOrder ==
  \/ \E f \in SysFrames :
       \/ ConsoleArm(f)
       \/ ConsoleDisarm(f)
       \/ MouseMove(f)
       \/ Deliver(f)
  \/ Tick

InitOrder ==
  /\ InitBackground(MaxOrderEvents)
  /\ InitFrames(SysFrames)
  /\ dom \in [Frames -> {<< >>, <<PlainCaptcha>>}]
  /\ dom["other"] = << >>

SpecOrder == InitOrder /\ [][NextOrder]_vars

\* the session documents of every export trigger: caplog.arm() has been
\* called in the two frames of tab 1, whose messages are on their way; the
\* pointer moves in both, and the top frame exports on the shortcut, the
\* interval, the hidden page and the unload
Armed(f, d) == arm(f, [fr |-> FrameInit, out |-> << >>, spawn |-> << >>], d)

NextSummary ==
  \/ \E f \in SysFrames :
       \/ MouseMove(f)
       \/ Deliver(f)
  \/ ShortcutKey
  \/ IntervalTick
  \/ VisibilityHidden
  \/ BeforeUnload
  \/ \E p \in DOMAIN procs : Resume(p)
  \/ SysDownloadSettles

InitSummary ==
  /\ InitBackground(MaxSummaryEvents)
  /\ dom = [f \in Frames |-> IF f = "top" THEN <<InlineCaptcha>>
                            ELSE IF f = "child" THEN <<PlainCaptcha>> ELSE << >>]
  /\ loaded = [f \in Frames |-> f \in SysFrames]
  /\ now = 1
  /\ procs = << >>
  /\ frame = [f \in Frames |-> IF f \in SysFrames THEN Armed(f, dom[f]).fr ELSE FrameInit]
  /\ chan = [f \in Frames |-> IF f \in SysFrames THEN Armed(f, dom[f]).out ELSE << >>]

SpecSummary == InitSummary /\ [][NextSummary]_vars

\* time passes in the top frame of tab 1, a second or the length of the
\* inactivity timeout, and no further than the time at which the timeout of
\* resetInactivityTimer is due, if one is pending; that timeout runs when due
Idle ==
  \E seconds \in {1, EXPORT_CONFIG.inactivityTimeoutMs} :
  LET t == now + seconds
      pending == frame["top"].inactivityTimer # 0
      due == pending /\ t >= frame["top"].inactivityTimer
      c == [Ctx("top") EXCEPT !.fr.inactivityTimer = 0]
  IN  /\ eventsLeft > 0
      /\ eventsLeft' = eventsLeft - 1
      /\ t <= MaxIdleT
      /\ pending => t <= frame["top"].inactivityTimer
      /\ now' = t
      /\ loaded["top"]
      /\ Commit("top", IF due THEN inactivityCallback("top", c, dom["top"], t) ELSE Ctx("top"))
      /\ last' = [action |-> "idle"]
      /\ UNCHANGED <<bgVars, response, notif, logVars, loaded, dom, consented>>

\* the pointer at rest: the top frame is armed, the pointer moves and then
\* time passes
NextIdle ==
  \/ ConsoleArm("top")
  \/ MouseMove("top")
  \/ Deliver("top")
  \/ Idle

InitIdle ==
  /\ InitBackground(MaxIdleEvents)
  /\ InitFrames(SysFrames)
  /\ dom \in [Frames -> {<< >>, <<PlainCaptcha>>}]
  /\ dom["child"] = << >>
  /\ dom["other"] = << >>

SpecIdle == InitIdle /\ [][NextIdle]_vars

----------------------------------------------------------------------------
(* The toolbar button and the consent page: consent.js, the background     *)
(* script's browserAction.onClicked listener, and the content script's     *)
(* start in a frame and its listener for the messages of the background.   *)

\* consent.js: the click listeners of accept-btn and decline-btn
ConsentAccept ==
  /\ eventsLeft > 0
  /\ eventsLeft' = eventsLeft - 1
  /\ consented' = "true"
  /\ last' = [action |-> "accept-btn"]
  /\ UNCHANGED <<bgVars, response, notif, logVars, frameVars>>

ConsentDecline ==
  /\ eventsLeft > 0
  /\ eventsLeft' = eventsLeft - 1
  /\ consented' = "false"
  /\ last' = [action |-> "decline-btn"]
  /\ UNCHANGED <<bgVars, response, notif, logVars, frameVars>>

\* the message the onClicked listener sends with tabs.sendMessage
ToggleMessage == [action |-> "toggle-activate"]

toggleArmed(f, c, d) == IF c.fr.isArmed THEN disarm(f, c) ELSE arm(f, c, d)

\* main.js: the runtime.onMessage listener, for the messages other than
\* captcha-image-captured
onMessage(f, c, d, message) ==
  IF message.action = "toggle-arm" THEN toggleArmed(f, c, d)
  ELSE IF message.action = "broadcast-start-recording" THEN
    IF c.fr.isArmed /\ ~c.fr.isRecording THEN startRecording(f, c, d) ELSE c
  ELSE IF message.action = "broadcast-stop-recording" THEN
    IF c.fr.isRecording THEN stopRecording(f, c) ELSE c
  ELSE c

\* checkPersistedArmedState after its await: reply is what the background
\* answered to "get-armed-state"; response.armed of undefined throws, and the
\* catch does nothing
checkPersistedArmedState(f, c, d, reply) ==
  IF reply = NoResponse THEN c
  ELSE IF reply.armed /\ ~c.fr.isArmed THEN arm(f, c, d)
  ELSE c

\* the content script starts in frame f and runs to the end of
\* checkPersistedArmedState
Started(f, reply) ==
  checkPersistedArmedState(f, [fr |-> FrameInit, out |-> << >>, spawn |-> << >>], dom[f], reply)

\* the document of frame f is loaded again: a new content script starts, its
\* get-armed-state message is handled by the background listener, and the
\* exportSession calls of the old script are gone with it
PageLoad(f) ==
  /\ eventsLeft > 0
  /\ eventsLeft' = eventsLeft - 1
  /\ loaded[f]
  /\ OnUnhandled(TabOf(f))
  /\ frame' = [frame EXCEPT ![f] = Started(f, response').fr]
  /\ chan' = [chan EXCEPT ![f] = @ \o Started(f, response').out]
  /\ procs' = [p \in DOMAIN procs |->
                 IF procs[p].frame = f /\ procs[p].pc # "done"
                   THEN [procs[p] EXCEPT !.pc = "done", !.result = "unloaded"]
                   ELSE procs[p]]
  /\ last' = [frame |-> f, tabId |-> TabOf(f), action |-> "load"]
  /\ UNCHANGED <<loaded, dom, now, consented, removedTabs>>

\* browserAction.onClicked for a click on the button in tab tabId. Without
\* consent the consent page is opened. With it, toggle-activate is sent to
\* the frames of the tab; when no content script runs there the send fails,
\* main.js is injected into all frames and the message is sent again.
ToolbarClick(tabId) ==
  LET inTab == {f \in Frames : TabOf(f) = tabId}
      targets == {f \in inTab : loaded[f]}
      Receive(f, c) == onMessage(f, c, dom[f], ToggleMessage)
      after == [f \in Frames |->
                  IF f \notin inTab THEN Ctx(f)
                  ELSE IF targets # {} THEN (IF loaded[f] THEN Receive(f, Ctx(f)) ELSE Ctx(f))
                  ELSE Receive(f, Started(f, response'))]
  IN  /\ eventsLeft > 0
      /\ eventsLeft' = eventsLeft - 1
      /\ tabId \notin removedTabs
      /\ IF consented # "true" THEN
           /\ last' = [tabId |-> tabId, action |-> "browserAction.onClicked",
                       consentPage |-> TRUE, sent |-> << >>]
           /\ UNCHANGED <<bgVars, response, notif, ptsLog, imgLog, frame, chan, loaded>>
         ELSE IF targets # {} THEN
           /\ last' = [tabId |-> tabId, action |-> "browserAction.onClicked",
                       consentPage |-> FALSE, sent |-> <<ToggleMessage>>]
           /\ frame' = [f \in Frames |-> after[f].fr]
           /\ chan' = [f \in Frames |-> chan[f] \o after[f].out]
           /\ UNCHANGED <<bgVars, response, notif, ptsLog, imgLog, loaded>>
         ELSE
           /\ last' = [tabId |-> tabId, action |-> "browserAction.onClicked",
                       consentPage |-> FALSE, sent |-> <<ToggleMessage, ToggleMessage>>]
           /\ OnUnhandled(tabId)
           /\ loaded' = [f \in Frames |-> loaded[f] \/ f \in inTab]
           /\ frame' = [f \in Frames |-> after[f].fr]
           /\ chan' = [f \in Frames |-> chan[f] \o after[f].out]
      /\ UNCHANGED <<procs, dom, now, consented, removedTabs>>

NextConsent ==
  \/ ConsentAccept
  \/ ConsentDecline
  \/ \E tabId \in Tabs : ToolbarClick(tabId)
  \/ \E f \in SysFrames :
       \/ PageLoad(f)
       \/ ConsoleArm(f)
       \/ ConsoleDisarm(f)
       \/ Deliver(f)

SpecConsent == InitSys /\ [][NextConsent]_vars

----------------------------------------------------------------------------
(* The arming of a frame whose document is loaded in a tab the background  *)
(* holds as activated or not: the activated-state message reaches the      *)
(* background, whoever sends it, and the documents of the frames of tab 1  *)
(* are loaded again.                                                       *)

NextReload ==
  \/ MsgActivatedState("top")
  \/ \E f \in SysFrames :
       \/ PageLoad(f)
       \/ ConsoleArm(f)
       \/ ConsoleDisarm(f)
       \/ Deliver(f)

InitReload ==
  /\ InitBackground(MaxReloadEvents)
  /\ InitFrames(SysFrames)
  /\ dom \in [Frames -> DomStates]
  /\ dom["other"] = << >>

SpecReload == InitReload /\ [][NextReload]_vars

----------------------------------------------------------------------------
(* Arming and recording: the frames of tab 1 are armed and disarmed, their *)
(* documents change and are loaded again, the top frame exports and        *)
(* resets, and the broadcast messages of the content script's listener     *)
(* reach the frames, whoever sends them.                                   *)

\* the onMessage listener of frame f receives a broadcast message
BroadcastMessage(f) ==
  \E action \in {"broadcast-start-recording", "broadcast-stop-recording"} :
    /\ FrameEvent(f, action, onMessage(f, Ctx(f), dom[f], [action |-> action]))
    /\ UNCHANGED dom

NextArming ==
  \/ \E f \in SysFrames :
       \/ ConsoleArm(f)
       \/ ConsoleDisarm(f)
       \/ DomMutation(f)
       \/ BroadcastMessage(f)
       \/ PageLoad(f)
       \/ Deliver(f)
  \/ ShortcutKey
  \/ \E p \in DOMAIN procs : Resume(p)

InitArming ==
  /\ InitBackground(MaxArmingEvents)
  /\ InitFrames(SysFrames)
  /\ dom \in [Frames -> DomStates]
  /\ dom["other"] = << >>

SpecArming == InitArming /\ [][NextArming]_vars

----------------------------------------------------------------------------
(* The content scripts of the two frames of tab 1 with a wider choice of   *)
(* what reaches them: documents with two CAPTCHA elements at different     *)
(* places, pointer positions inside, on the border of and outside the      *)
(* rectangles, pointer moves in frames whose listener is not registered,   *)
(* and image notifications for lists longer than the scaled-down cap.      *)
(* SpecPointer has the events that bear on cursor recording, SpecRounds    *)
(* those that bear on round counting.                                      *)

MovedCaptcha ==
  [selector |-> "iframe.captcha", images |-> << >>, rect |-> MovedRect, id |-> "moved"]
FrameDomStates == {<< >>, <<PlainCaptcha>>, <<PlainCaptcha, MovedCaptcha>>}

PointerPositions == {<<1, 1>>, <<0, 2>>, <<3, 3>>, <<4, 1>>}

\* the document of frame f changes
DomChange(f) ==
  \E d \in FrameDomStates \ {dom[f]} :
    /\ dom' = [dom EXCEPT ![f] = d]
    /\ FrameEvent(f, "mutation",
                  IF frame[f].captchaObserver THEN observerCallback(f, Ctx(f), d) ELSE Ctx(f))

\* the pointer moves in the document of frame f: handleMouseMove runs when
\* it is registered as the mousemove listener
PointerMove(f) ==
  \E xy \in PointerPositions :
    /\ eventsLeft > 0
    /\ eventsLeft' = eventsLeft - 1
    /\ loaded[f]
    /\ Commit(f, IF frame[f].mousemove THEN handleMouseMove(f, Ctx(f), xy[1], xy[2])
                 ELSE Ctx(f))
    /\ last' = [x |-> xy[1], y |-> xy[2], frame |-> f,
                tabId |-> TabOf(f), action |-> "mousemove"]
    /\ UNCHANGED <<bgVars, response, notif, logVars, loaded, now, consented, dom>>

\* the background script stores an image of tab 1 and sends
\* captcha-image-captured with the length of the tab's list
ImageNotification ==
  \E imageCount \in 1..MaxImageCount :
    /\ Event
    /\ notif' = [notif EXCEPT ![1] = Append(@, imageCount)]
    /\ last' = [tabId |-> 1, imageCount |-> imageCount, action |-> "image-stored"]
    /\ UNCHANGED <<bgVars, response, logVars>>

\* pointer moves: the frames are armed, their documents change, time passes,
\* and the exports of the top frame run up to the background's answer
NextPointer ==
  \/ \E f \in SysFrames :
       \/ ConsoleArm(f)
       \/ DomChange(f)
       \/ PointerMove(f)
  \/ Tick
  \/ Deliver("top")
  \/ \E p \in DOMAIN procs : Resume(p)

InitPointer ==
  /\ InitBackground(MaxPointerEvents)
  /\ InitFrames(SysFrames)
  /\ dom \in [Frames -> FrameDomStates]
  /\ dom["other"] = << >>

SpecPointer == InitPointer /\ [][NextPointer]_vars

\* round counting: the frames are armed and disarmed and image notifications
\* arrive
NextRounds ==
  \/ \E f \in SysFrames :
       \/ ConsoleArm(f)
       \/ ConsoleDisarm(f)
  \/ ImageNotification
  \/ NotifDeliver

InitRounds ==
  /\ InitBackground(MaxRoundEvents)
  /\ InitFrames(SysFrames)
  /\ dom \in [Frames -> FrameDomStates]
  /\ dom["other"] = << >>

SpecRounds == InitRounds /\ [][NextRounds]_vars

----------------------------------------------------------------------------
(* Properties of the export.                                               *)

\* C1: an export requested while the aggregator holds no image of the tab
\* (the session object it builds has imageCount 0) downloads no file, neither
\* session.json nor an image, and does not end in success.
ExportGate ==
  \A k \in DOMAIN exports :
    exports[k].session.imageCount = 0 =>
      /\ ~exports[k].sessionWritten
      /\ exports[k].imageFiles = << >>
      /\ exports[k].pc # "done"

\* the bundle of an export call: session.json and at least one image file
BundleWritten(e) == e.sessionWritten /\ e.imageFiles # << >>
\* C2: no two export calls that read the same array of captured images (no
\* reset of the tab's image list lies between them) both write a bundle when
\* the two bundles share an image and a cursor point.
ExportedOncePerSession ==
  \A k \in DOMAIN exports : \A j \in exports[k].sharesArrayWith :
    ~ /\ BundleWritten(exports[j])
      /\ BundleWritten(exports[k])
      /\ \E a \in Range(exports[j].imageFiles), b \in Range(exports[k].imageFiles) :
           a.dataUrl = b.dataUrl
      /\ Range(exports[j].session.data.cursorPoints)
           \cap Range(exports[k].session.data.cursorPoints) # {}

----------------------------------------------------------------------------
(* Properties of the aggregator (background.js).                           *)

Fingerprints(stored, key) == {j \in DOMAIN stored : Substring200(stored[j].dataUrl) = key}
\* the first image of a batch with the fingerprint key
FirstWith(batch, key) ==
  batch[CHOOSE j \in DOMAIN batch :
          /\ Substring200(batch[j].dataUrl) = key
          /\ \A m \in 1..(j - 1) : Substring200(batch[m].dataUrl) # key]

\* C3: handling a captcha-inline-images batch, with no eviction since the
\* list was last reset, leaves for every fingerprint of the batch exactly one
\* entry made from the first image reported with it: the first image of the
\* batch when no stored entry had the fingerprint, and otherwise the entries
\* stored before, unchanged and without a new one.
DedupIdempotence ==
  [][(last'.action = "captcha-inline-images" /\ imgLog'[last'.tabId].n <= MAX_IMAGES_PER_TAB) =>
       LET tabId == last'.tabId
           before == GetOrEmpty(capturedImages, tabId)
           after == capturedImages'[tabId]
           batch == last'.images
       IN  /\ SubSeq(after, 1, Len(before)) = before
           /\ \A i \in DOMAIN batch :
                LET key == Substring200(batch[i].dataUrl)
                IN  IF Fingerprints(before, key) = {}
                      THEN /\ Cardinality(Fingerprints(after, key)) = 1
                           /\ \A j \in Fingerprints(after, key) :
                                after[j] = InlineEntry(FirstWith(batch, key))
                      ELSE Fingerprints(after, key) = Fingerprints(before, key)
           /\ \A j \in DOMAIN after :
                j > Len(before) => \E i \in DOMAIN batch :
                                     Substring200(batch[i].dataUrl) = Substring200(after[j].dataUrl)
    ]_vars
\* C3 witness: the batch that repeats the fingerprint of the image stored by
\* an earlier batch has been handled and the list still holds that one entry
DedupIdempotenceWitness ==
  /\ last.action = "captcha-inline-images"
  /\ last.images = <<InlineImage("top", "canvas", InlinePngVariant)>>
  /\ capturedImages[1] = <<InlineEntry(InlineImage("top", "inline-image", InlinePng))>>

\* C4: no two images stored for a tab share their first 200 characters,
\* whichever channel stored them.
NoSharedFingerprint ==
  \A tabId \in DOMAIN capturedImages :
    \A i, j \in DOMAIN capturedImages[tabId] :
      Substring200(capturedImages[tabId][i].dataUrl) = Substring200(capturedImages[tabId][j].dataUrl)
        => i = j

\* C5: a tab's cursor-point list holds at most MAX_CURSOR_POINTS points and,
\* when more were received since the list was last reset, exactly the
\* MAX_CURSOR_POINTS most recently received ones.
CursorCapKeepsMostRecent ==
  \A tabId \in Tabs :
    LET stored == GetOrEmpty(aggregatedCursorPoints, tabId)
    IN  /\ Len(stored) <= MAX_CURSOR_POINTS
        /\ ptsLog[tabId].n > MAX_CURSOR_POINTS => SameBag(stored, ptsLog[tabId].recent)

\* C6: a tab's image list holds at most MAX_IMAGES_PER_TAB entries, and they
\* are the most recently appended ones in arrival order (the oldest are the
\* ones removed), whichever channel appended them.
ImageCapEvictsOldest ==
  \A tabId \in Tabs :
    /\ Len(GetOrEmpty(capturedImages, tabId)) <= MAX_IMAGES_PER_TAB
    /\ GetOrEmpty(capturedImages, tabId) = imgLog[tabId].recent
\* C6 witness: the cap was exceeded and the list holds an entry of each channel
ImageCapWitness ==
  /\ imgLog[1].n > MAX_IMAGES_PER_TAB
  /\ 1 \in DOMAIN capturedImages
  /\ Len(capturedImages[1]) = MAX_IMAGES_PER_TAB
  /\ \E i, j \in DOMAIN capturedImages[1] :
       /\ "source" \in DOMAIN capturedImages[1][i]
       /\ "source" \notin DOMAIN capturedImages[1][j]

\* C7: get-aggregated-data answers with all the stored cursor points of the
\* tab and only them, ordered non-decreasingly by t, and with empty lists for
\* a tab that has no entry.
SortedAnswer ==
  [][last'.action = "get-aggregated-data" =>
       LET tabId == last'.tabId
           stored == GetOrEmpty(aggregatedCursorPoints, tabId)
           answer == response'.cursorPoints
       IN  /\ response'.kind = "aggregated"
           /\ SameBag(answer, stored)
           /\ \A i, j \in DOMAIN answer : i < j => answer[i].t <= answer[j].t
           /\ tabId \notin DOMAIN aggregatedCursorPoints =>
                answer = << >> /\ response'.captchaElements = << >>
    ]_vars
\* C7 witness: two points of different frames that arrived with decreasing t
\* are answered in increasing t
SortedAnswerWitness ==
  /\ last.action = "get-aggregated-data"
  /\ response.kind = "aggregated"
  /\ Len(response.cursorPoints) = 2
  /\ response.cursorPoints[1].t < response.cursorPoints[2].t
  /\ response.cursorPoints[1].frameId # response.cursorPoints[2].frameId
  /\ ptsLog[1].recent = <<response.cursorPoints[2], response.cursorPoints[1]>>

\* the signatures of the image formats
HasPrefix(body, sig) ==
  /\ body.length >= Len(sig)
  /\ Len(body.bytes) >= Len(sig)
  /\ SubSeq(body.bytes, 1, Len(sig)) = sig
SignatureMime(body) ==
  IF body.length < 8 THEN Null
  ELSE IF HasPrefix(body, <<255, 216, 255>>) THEN "image/jpeg"
  ELSE IF HasPrefix(body, <<137, 80, 78, 71>>) THEN "image/png"
  ELSE IF HasPrefix(body, <<71, 73, 70, 56>>) THEN "image/gif"
  ELSE IF /\ HasPrefix(body, <<82, 73, 70, 70>>)
          /\ body.length >= 12 /\ Len(body.bytes) >= 12
          /\ SubSeq(body.bytes, 9, 12) = <<87, 69, 66, 80>> THEN "image/webp"
  ELSE IF HasPrefix(body, <<66, 77>>) THEN "image/bmp"
  ELSE Null

\* C8: the MIME type of a network image is the one of the signature its bytes
\* begin with, whatever its URL and declared type; a body with no signature
\* or shorter than 8 bytes is classified null and nothing is stored for it.
MagicBytesDecide ==
  [][last'.action = "filter.onstop" =>
       LET tabId == last'.tabId
           body == last'.body
           before == GetOrEmpty(capturedImages, tabId)
       IN  IF SignatureMime(body) = Null
             THEN /\ last'.log = "Skipping non-image response"
                  /\ capturedImages' = capturedImages
             ELSE /\ last'.log # "Skipping non-image response"
                  /\ last'.log = "Captured" =>
                       LET after == capturedImages'[tabId]
                       IN  /\ after[Len(after)].mimeType = SignatureMime(body)
                           /\ after[Len(after)].dataUrl.head.mime = SignatureMime(body)
    ]_vars
\* C8 witness: a JPEG body served from a .png URL as image/png is stored as
\* image/jpeg
MagicBytesWitness ==
  /\ last.action = "filter.onstop"
  /\ last.body = JpegBody
  /\ last.declared = "image/png"
  /\ capturedImages[1] # << >>
  /\ capturedImages[1][Len(capturedImages[1])].mimeType = "image/jpeg"
  /\ capturedImages[1][Len(capturedImages[1])].url = ImageRequest.url

\* C9: a tab whose tabs.onRemoved event was handled has no entry in the image
\* map, the cursor-point map and the element map and is not activated.
NoStateAfterTabClose ==
  \A tabId \in removedTabs :
    /\ tabId \notin DOMAIN capturedImages
    /\ tabId \notin DOMAIN aggregatedCursorPoints
    /\ tabId \notin DOMAIN aggregatedCaptchaElements
    /\ tabId \notin activatedTabs

\* C10: a cursor-point, captcha-elements or captcha-inline-images message of
\* a tab that is not activated leaves the three maps unchanged.
ActivationGatesReports ==
  [][(/\ last'.action \in {"cursor-point", "captcha-elements", "captcha-inline-images"}
      /\ last'.tabId \notin activatedTabs)
       => UNCHANGED <<capturedImages, aggregatedCursorPoints, aggregatedCaptchaElements>>
    ]_vars


\* C11: an activated-state message of a child frame (isTopFrame false),
\* whether it says activated true or false, leaves the activated set and the
\* image, cursor-point and element lists of every tab as they were.
ChildActivationIgnored ==
  [][(last'.action = "activated-state" /\ ~last'.isTopFrame)
       => UNCHANGED <<activatedTabs, capturedImages, aggregatedCursorPoints,
                      aggregatedCaptchaElements>>]_vars

\* a child frame said "activated" on a tab that holds a point, an element and
\* an image, and the tab still holds them
ChildActivationWitness ==
  /\ last.action = "activated-state" /\ ~last.isTopFrame /\ last.activated
  /\ 1 \notin activatedTabs
  /\ GetOrEmpty(aggregatedCursorPoints, 1) # << >>
  /\ GetOrEmpty(aggregatedCaptchaElements, 1) # << >>
  /\ GetOrEmpty(capturedImages, 1) # << >>

\* C19: the element list of a tab never holds two records with the same
\* (frameId, selector); a captcha-elements report leaves every stored record
\* in place and as it was (the first record of a key is kept, a later one with
\* another rect is dropped) and adds one record for each new key; a stored
\* record goes away only by clear-cursor-data, by an activation of the top
\* frame, by a successful export or by the close of the tab.
StoredElements(tabId) == GetOrEmpty(aggregatedCaptchaElements, tabId)
ElementMergeKeepsFirst ==
  [][\A tabId \in Tabs :
       LET old == StoredElements(tabId)
           new == StoredElements(tabId)'
           kept == Len(new) >= Len(old) /\ SubSeq(new, 1, Len(old)) = old
       IN  /\ \A i, j \in DOMAIN new : ElementKey(new[i]) = ElementKey(new[j]) => i = j
           /\ (last'.action = "captcha-elements" /\ last'.tabId = tabId) =>
                /\ kept
                /\ \A i \in DOMAIN last'.elements :
                     \E j \in DOMAIN new : ElementKey(new[j]) = ElementKey(last'.elements[i])
                /\ \A j \in DOMAIN new : j > Len(old) =>
                     \E i \in DOMAIN last'.elements :
                       /\ new[j] = last'.elements[i]
                       /\ \A h \in 1..(i - 1) : ElementKey(last'.elements[h]) # ElementKey(new[j])
           /\ ~kept =>
                \/ last'.action = "clear-cursor-data" /\ last'.tabId = tabId
                \/ last'.action = "activated-state" /\ last'.tabId = tabId
                     /\ last'.activated /\ last'.isTopFrame
                \/ last'.action = "download" /\ last'.tabId = tabId /\ last'.ok
                     /\ exports'[last'.export].pc = "done"
                \/ last'.action = "tabs.onRemoved" /\ last'.tabId = tabId]_vars

\* a report carried another rect for a stored key, and a record of a new key:
\* the stored record kept its rect and the new one was added
ElementMergeWitness ==
  /\ last.action = "captcha-elements"
  /\ \E i \in DOMAIN last.elements : \E j \in DOMAIN StoredElements(1) :
       /\ ElementKey(last.elements[i]) = ElementKey(StoredElements(1)[j])
       /\ last.elements[i].rect # StoredElements(1)[j].rect
  /\ \E j, h \in DOMAIN StoredElements(1) :
       StoredElements(1)[j].frameId # StoredElements(1)[h].frameId

----------------------------------------------------------------------------
(* Properties of activation and consent.                                   *)

\* C12: a toolbar click on tab 1, made with consent true while the content
\* script runs in the top frame, toggles the top frame's armed flag; and once
\* the background script has handled everything the top frame sent, the tab
\* is in the activated set, with an entry in each of the three maps, exactly
\* when the top frame is armed. (The finite-run form of "eventually": the
\* messages of the frame have all been handled.)
ToolbarActivates ==
  [][/\ (last'.action = "browserAction.onClicked" /\ last'.tabId = 1
           /\ consented = "true" /\ loaded["top"])
          => frame'["top"].isArmed # frame["top"].isArmed
     /\ (loaded'["top"] /\ chan'["top"] = << >>)
          => /\ frame'["top"].isArmed <=> 1 \in activatedTabs'
             /\ frame'["top"].isArmed =>
                  /\ 1 \in DOMAIN capturedImages'
                  /\ 1 \in DOMAIN aggregatedCursorPoints'
                  /\ 1 \in DOMAIN aggregatedCaptchaElements']_vars

\* C13: a frame goes from unarmed to armed only in a step taken while the
\* stored consent flag is true, and a toolbar click made without consent
\* opens the consent page and sends no toggle message.
ArmOnlyWithConsent ==
  [][/\ \A f \in Frames : (~frame[f].isArmed /\ frame'[f].isArmed) => consented = "true"
     /\ (last'.action = "browserAction.onClicked" /\ consented # "true")
          => last'.consentPage /\ last'.sent = << >>]_vars

----------------------------------------------------------------------------
(* Properties of the session boundaries.                                   *)

\* C14: when an export started by the interval timer ends successfully, the
\* top frame is still recording and the aggregator still holds cursor
\* points, elements and images of the tab.
TabHoldsSession(tabId) ==
  /\ GetOrEmpty(aggregatedCursorPoints, tabId) # << >>
  /\ GetOrEmpty(aggregatedCaptchaElements, tabId) # << >>
  /\ GetOrEmpty(capturedImages, tabId) # << >>
IntervalExportKeepsSession ==
  [][\A p \in DOMAIN procs :
       (/\ procs[p].then = "log"
        /\ procs[p].pc # "done"
        /\ procs'[p].pc = "done"
        /\ procs'[p].result = "exported")
         => frame'["top"].isRecording /\ TabHoldsSession(1)']_vars

\* C15: at a tick of the interval timer taken while the top frame is armed,
\* a CAPTCHA is in its document and it holds a cursor point, an export is
\* attempted, and if the three conditions still hold after the tick the timer
\* is still set and the frame still recording, so that the next tick attempts
\* an export again whatever becomes of this one. (The finite-run form of
\* "at every tick".)
TickConditions(fr, d) == fr.isArmed /\ d # << >> /\ fr.cursorPoints # << >>
IntervalExportRetried ==
  [][(last'.action = "interval" /\ TickConditions(frame["top"], dom["top"]))
       => /\ Len(procs') = Len(procs) + 1
          /\ TickConditions(frame'["top"], dom'["top"])
               => frame'["top"].intervalExportTimer /\ frame'["top"].isRecording]_vars

----------------------------------------------------------------------------
(* Properties of the content script.                                       *)

\* C16: when the frames of the tab receive captcha-image-captured with an
\* imageCount that exceeds the top frame's lastImageCount by k > 0, the top
\* frame's roundCount grows by one if the frame is recording and k >= 3 and
\* stays as it was otherwise, and its lastImageCount becomes imageCount; with
\* imageCount <= lastImageCount neither changes; a child frame's roundCount
\* and lastImageCount never change.
RoundCounting ==
  [][last'.action = "captcha-image-captured" =>
       LET old == frame["top"]
           new == frame'["top"]
           k == last'.imageCount - old.lastImageCount
       IN  /\ k > 0 =>
                /\ new.lastImageCount = last'.imageCount
                /\ new.roundCount = IF old.isRecording /\ k >= 3
                                      THEN old.roundCount + 1 ELSE old.roundCount
           /\ k <= 0 =>
                /\ new.lastImageCount = old.lastImageCount
                /\ new.roundCount = old.roundCount
           /\ frame'["child"] = frame["child"]]_vars

\* the recording top frame has counted a second round after a notification of
\* four new images, and the recording child frame is still in its first round
RoundCountingWitness ==
  /\ last.action = "captcha-image-captured"
  /\ frame["top"].isRecording
  /\ frame["top"].roundCount = 2
  /\ frame["top"].lastImageCount = last.imageCount
  /\ last.imageCount = 4
  /\ frame["child"].isRecording /\ frame["child"].roundCount = 1

\* C17: a recording frame has its mousemove listener registered, and a
\* pointer move in it appends exactly one point to the frame's cursorPoints
\* and sends exactly one message, a cursor-point carrying that point, whose
\* x and y are the pointer's, whose frameId, frameUrl and frameDepth are the
\* frame's and whose t is the current time less recordingStartTime; a pointer
\* move in a frame that is not recording appends nothing and sends no
\* cursor-point.
CursorPointMessages(msgs) == {i \in DOMAIN msgs : msgs[i].action = "cursor-point"}
CursorRecording ==
  [][/\ \A f \in SysFrames : frame[f].isRecording => frame[f].mousemove
     /\ last'.action = "mousemove" =>
          LET f == last'.frame
              old == frame[f]
              new == frame'[f]
              sent == SubSeq(chan'[f], Len(chan[f]) + 1, Len(chan'[f]))
          IN  /\ Len(chan'[f]) >= Len(chan[f])
              /\ SubSeq(chan'[f], 1, Len(chan[f])) = chan[f]
              /\ IF old.isRecording THEN
                   /\ Len(new.cursorPoints) = Len(old.cursorPoints) + 1
                   /\ SubSeq(new.cursorPoints, 1, Len(old.cursorPoints)) = old.cursorPoints
                   /\ LET p == new.cursorPoints[Len(new.cursorPoints)]
                      IN  /\ p.x = last'.x /\ p.y = last'.y
                          /\ p.t = now - old.recordingStartTime
                          /\ p.frameId = frameId(f)
                          /\ p.frameUrl = frameUrl(f)
                          /\ p.frameDepth = frameDepth(f)
                          /\ Cardinality(CursorPointMessages(sent)) = 1
                          /\ \A i \in CursorPointMessages(sent) : sent[i].point = p
                 ELSE
                   /\ new.cursorPoints = old.cursorPoints
                   /\ CursorPointMessages(sent) = {}]_vars

\* the pointer has moved in the recording child frame a while after its
\* recording began, and the point was appended
CursorRecordingWitness ==
  /\ last.action = "mousemove" /\ last.frame = "child"
  /\ frame["child"].isRecording
  /\ frame["child"].cursorPoints # << >>
  /\ frame["child"].cursorPoints[Len(frame["child"].cursorPoints)].t > 0

\* C18: the overCaptcha of a recorded point is true exactly when the pointer
\* is inside or on the border of the rect of at least one element of the
\* frame's captchaElements list as it stands when the pointer moves, and
\* false when the list is empty or no rect contains the pointer.
OverCaptchaIsPointInRect ==
  [][(last'.action = "mousemove" /\ frame[last'.frame].isRecording) =>
       LET f == last'.frame
           rects == {frame[f].captchaElements[i].rect : i \in DOMAIN frame[f].captchaElements}
           p == frame'[f].cursorPoints[Len(frame'[f].cursorPoints)]
       IN  /\ frame'[f].cursorPoints # << >>
           /\ p.overCaptcha <=>
                \E r \in rects :
                  /\ r.left <= last'.x /\ last'.x <= r.right
                  /\ r.top <= last'.y /\ last'.y <= r.bottom
           /\ rects = {} => ~p.overCaptcha]_vars

\* a point on the border of the second of two rects, outside the first, was
\* recorded as over the CAPTCHA
OverCaptchaWitness ==
  /\ last.action = "mousemove" /\ last.x = 3 /\ last.y = 3
  /\ frame[last.frame].isRecording
  /\ Len(frame[last.frame].captchaElements) = 2
  /\ frame[last.frame].cursorPoints # << >>
  /\ frame[last.frame].cursorPoints[Len(frame[last.frame].cursorPoints)].overCaptcha

\* C20: when the export-and-reset of a session boundary (the CAPTCHA has
\* disappeared, or the shortcut was pressed) has finished, that is when the
\* background script has handled the clear-cursor-data message that
\* resetRecording sends after the export, the image list, the cursor-point
\* list and the element list of the tab are all empty.
ResetClearsSession ==
  [][last'.action = "clear-cursor-data" =>
       /\ GetOrEmpty(capturedImages', last'.tabId) = << >>
       /\ GetOrEmpty(aggregatedCursorPoints', last'.tabId) = << >>
       /\ GetOrEmpty(aggregatedCaptchaElements', last'.tabId) = << >>]_vars

\* C21: when an export attempt of the top frame is declined because no image
\* was captured, whatever started it, the frame's recording state (isRecording,
\* its cursor points, its CAPTCHA elements, its round count, its interval
\* timer) is the one the attempt was made in, and the attempt ends without a
\* message that would make the aggregator empty its lists.
DeclinedExportNoEffect ==
  [][\A p \in DOMAIN procs :
       (/\ procs[p].pc # "done"
        /\ procs'[p].pc = "done"
        /\ procs'[p].result = "declined"
        /\ procs[p].capturedImageCount = 0)
         => /\ SessionState(frame'[procs[p].frame]) = procs[p].before
            /\ chan'[procs[p].frame] = chan[procs[p].frame]]_vars

----------------------------------------------------------------------------
(* Properties of the network channel.                                      *)

\* C22: a response filter stores an image for a tab only while the tab is in
\* the activated set and has not been closed: a response that ends after the
\* deactivation or the close of its tab leaves the image map as it was.
NetworkCaptureOnlyActivated ==
  [][(last'.action = "filter.onstop" /\ capturedImages' # capturedImages)
       => /\ last'.tabId \in activatedTabs
          /\ last'.tabId \notin removedTabs]_vars

\* the entries of a list that the network channel stored (the DOM channel
\* marks its entries with a source field)
NetworkEntries(stored) == {i \in DOMAIN stored : "source" \notin DOMAIN stored[i]}
\* C23: every stored image of the network channel has a size of at least 1000
\* bytes and one of the five image MIME types; a response whose body fails
\* either test leaves the maps, the activated set and the exports as they were
\* and sends no captcha-image-captured notification.
NetworkAdmission ==
  [][/\ \A tabId \in DOMAIN capturedImages' :
          \A i \in NetworkEntries(capturedImages'[tabId]) :
            /\ capturedImages'[tabId][i].size >= 1000
            /\ capturedImages'[tabId][i].mimeType \in MimeTypes
     /\ (/\ last'.action = "filter.onstop"
         /\ \/ last'.body.length < 1000
            \/ SignatureMime(last'.body) \notin MimeTypes)
          => UNCHANGED <<capturedImages, aggregatedCursorPoints, aggregatedCaptchaElements,
                         activatedTabs, exports, notif>>]_vars

\* a PNG of 999 bytes was rejected on a tab that holds an accepted image,
\* whose notification is still on its way to the top frame
NetworkAdmissionWitness ==
  /\ last.action = "filter.onstop"
  /\ last.body = TinyPngBody
  /\ Len(GetOrEmpty(capturedImages, 1)) = 1
  /\ notif[1] = <<1>>

----------------------------------------------------------------------------
(* Properties of the session transitions.                                  *)

\* C24: when the document of a frame changes, the frame's detection had found
\* no CAPTCHA element, the document now holds one and the frame is not
\* recording, then an armed frame is recording after the handler (its start
\* time is the current time, its cursor points are emptied, its roundCount
\* is 1 and its mousemove listener is registered) and a frame that is not
\* armed is not recording.
StartTransition ==
  [][last'.action = "mutation" =>
       LET f == last'.frame
           old == frame[f]
           new == frame'[f]
       IN  (old.captchaElements = << >> /\ dom'[f] # << >> /\ ~old.isRecording) =>
             IF old.isArmed
               THEN /\ new.isRecording
                    /\ new.recordingStartTime = now
                    /\ new.cursorPoints = << >>
                    /\ new.roundCount = 1
                    /\ new.mousemove
               ELSE ~new.isRecording]_vars

\* the top frame, which had recorded a cursor point and stopped, has started
\* to record again on a change of its document, with no cursor point
StartTransitionWitness ==
  /\ last.action = "mutation" /\ last.frame = "top"
  /\ frame["top"].isRecording
  /\ frame["top"].cursorPoints = << >>
  /\ frame["top"].roundCount = 1
  /\ \/ ptsLog[1].n > 0
     \/ CursorPointMessages(chan["top"]) # {}

\* C25: when the document of the recording top frame changes, its detection
\* had found a CAPTCHA element and the document holds none, the frame calls
\* exportSession (a call whose end is followed by the reset, and whose
\* get-captured-images message is sent); when such a call ends, whatever its
\* result, the frame is not recording, its cursor points and elements are
\* empty, its roundCount is 0, it is armed as it was, and clear-cursor-data
\* is the one message sent. The same change in a child frame starts no call,
\* sends nothing and changes only the frame's list of detected elements.
EndTransition ==
  [][/\ last'.action = "mutation" =>
          LET f == last'.frame
              old == frame[f]
              new == frame'[f]
          IN  (old.captchaElements # << >> /\ dom'[f] = << >> /\ old.isRecording) =>
                IF isTopFrame(f)
                  THEN /\ Len(procs') = Len(procs) + 1
                       /\ procs'[Len(procs')].then = "reset"
                       /\ procs'[Len(procs')].frame = f
                       /\ Len(chan'[f]) = Len(chan[f]) + 1
                       /\ chan'[f][Len(chan'[f])].action = "get-captured-images"
                  ELSE /\ procs' = procs
                       /\ chan'[f] = chan[f]
                       /\ new = [old EXCEPT !.captchaElements = << >>]
     /\ \A p \in DOMAIN procs :
          (/\ procs[p].then = "reset"
           /\ procs[p].pc # "done"
           /\ procs'[p].pc = "done"
           /\ procs'[p].result \in {"declined", "exported", "failed"}) =>
             LET f == procs[p].frame
                 new == frame'[f]
             IN  /\ ~new.isRecording
                 /\ new.cursorPoints = << >>
                 /\ new.captchaElements = << >>
                 /\ new.roundCount = 0
                 /\ new.isArmed = frame[f].isArmed
                 /\ Len(chan'[f]) = Len(chan[f]) + 1
                 /\ SubSeq(chan'[f], 1, Len(chan[f])) = chan[f]
                 /\ chan'[f][Len(chan'[f])].action = "clear-cursor-data"]_vars

\* the export the top frame requested when its CAPTCHA disappeared has ended
\* and the frame is reset and armed, while the child frame, whose CAPTCHA has
\* disappeared as well, is still recording
EndTransitionWitness ==
  /\ last.action = "resume"
  /\ \E p \in DOMAIN procs : procs[p].then = "reset" /\ procs[p].pc = "done"
  /\ frame["top"].isArmed /\ ~frame["top"].isRecording /\ frame["top"].roundCount = 0
  /\ chan["top"] # << >>
  /\ chan["top"][Len(chan["top"])].action = "clear-cursor-data"
  /\ frame["child"].isRecording /\ dom["child"] = << >>
  /\ frame["child"].captchaElements = << >>

\* the messages with which a frame asks the aggregator for the data of an
\* export, for the export itself and for the reset after it
ExportMessages == {"export-session", "clear-cursor-data", "get-aggregated-data"}
\* C26: a frame that is not a top frame never has an export-session, a
\* clear-cursor-data or a get-aggregated-data message on its way, and every
\* such message the background script handles was sent by a top frame.
OnlyTopFrameExports ==
  [][/\ \A f \in Frames : ~isTopFrame(f) =>
          \A i \in DOMAIN chan'[f] : chan'[f][i].action \notin ExportMessages
     /\ last'.action \in ExportMessages => isTopFrame(last'.frame)]_vars

\* caplog.export() was called in the recording child frame, which holds a
\* detected CAPTCHA element: no export call was started, none of the three
\* messages is on its way and the frame is still recording
OnlyTopFrameExportsWitness ==
  /\ last.action = "caplog.export" /\ last.frame = "child"
  /\ frame["child"].isRecording
  /\ frame["child"].captchaElements # << >>
  /\ procs = << >>

----------------------------------------------------------------------------
(* Properties of the export's downloads.                                   *)

\* C27: when a download of an export fails, the export ends there, the
\* export-session request is answered with success false and the three maps
\* are as they were; a download step changes the maps only when it ends the
\* export, and an export ends successfully only on a download that succeeded,
\* with session.json and every image of the tab's list written.
FailedDownloadKeepsData ==
  [][last'.action = "download" =>
       LET k == last'.export
           e == exports[k]
       IN  /\ ~last'.ok =>
                /\ exports'[k].pc = "failed"
                /\ response' = [kind |-> "result", success |-> FALSE]
                /\ UNCHANGED <<capturedImages, aggregatedCursorPoints,
                               aggregatedCaptchaElements>>
           /\ exports'[k].pc # "done" =>
                UNCHANGED <<capturedImages, aggregatedCursorPoints, aggregatedCaptchaElements>>
           /\ exports'[k].pc = "done" =>
                /\ last'.ok
                /\ response' = [kind |-> "result", success |-> TRUE]
                /\ exports'[k].sessionWritten
                /\ Len(exports'[k].imageFiles) = Len(ExportImages(e))
                /\ \A i \in DOMAIN exports'[k].imageFiles :
                     exports'[k].imageFiles[i].dataUrl = ExportImages(e)[i].dataUrl]_vars

\* the download of the second image of an export has failed after
\* session.json and the first image were written: the request was answered
\* with success false and the tab still holds its points, elements and images
FailedDownloadWitness ==
  /\ last.action = "download" /\ ~last.ok
  /\ exports[last.export].pc = "failed"
  /\ exports[last.export].sessionWritten
  /\ Len(exports[last.export].imageFiles) = 1
  /\ response = [kind |-> "result", success |-> FALSE]
  /\ TabHoldsSession(last.tabId)

\* C28: for every export that ended successfully, the image files written
\* are the entries listed in its session.json: as many files as imageCount
\* says, and the i-th file named as the i-th entry of the list, with ordinal i
\* and the subtype of that entry's image.
BundleConsistency ==
  \A k \in DOMAIN exports :
    exports[k].pc = "done" =>
      LET files == exports[k].imageFiles
          listed == exports[k].session.images
      IN  /\ exports[k].session.imageCount = Len(files)
          /\ Len(listed) = Len(files)
          /\ \A i \in DOMAIN files :
               /\ files[i].filename.ordinal = i
               /\ i \in DOMAIN listed => files[i].filename = listed[i].filename

\* the exports whose session.json was written
WrittenExports(exps) == {k \in DOMAIN exps : exps[k].sessionWritten}
\* C29: when an export ends and the lists of its tab are emptied, every
\* cursor point the tab's list held is in the session.json of some export,
\* and every image its list held is among the image files of some export.
NoDataDroppedByExport ==
  [][(last'.action = "download" /\ exports'[last'.export].pc = "done") =>
       LET tabId == last'.tabId
           points == GetOrEmpty(aggregatedCursorPoints, tabId)
           images == GetOrEmpty(capturedImages, tabId)
       IN  /\ \A i \in DOMAIN points :
                \E k \in WrittenExports(exports') :
                  points[i] \in Range(exports'[k].session.data.cursorPoints)
           /\ \A i \in DOMAIN images :
                \E k \in WrittenExports(exports') :
                  \E j \in DOMAIN exports'[k].imageFiles :
                    exports'[k].imageFiles[j].dataUrl = images[i].dataUrl]_vars

----------------------------------------------------------------------------
(* Properties of the DOM extraction.                                       *)

\* the captcha-inline-images messages among msgs
InlineImageMessages(msgs) == {i \in DOMAIN msgs : msgs[i].action = "captcha-inline-images"}
\* C30: a step in which a frame sends a captcha-inline-images message is
\* taken by a frame in which a click, mousedown or keydown has been observed
\* (by the end of the step at the latest: the gesture's own listener may
\* extract).
ExtractionAfterGesture ==
  [][\A f \in Frames :
       InlineImageMessages(SubSeq(chan'[f], Len(chan[f]) + 1, Len(chan'[f]))) # {}
         => frame'[f].hasUserInteraction]_vars

----------------------------------------------------------------------------
(* Properties of the order of the cursor points.                           *)

\* C31: the cursor points of one frame reach the aggregator in the order the
\* frame sent them, and in that order their t values never decrease: of two
\* points of the same frame received since the tab's list was last cleared,
\* the one received later has the greater or equal t, also when the frame
\* stopped and restarted recording in between.
PerFrameOrder ==
  \A tabId \in Tabs :
    LET received == ptsLog[tabId].recent
    IN  \A i, j \in DOMAIN received :
          i < j /\ received[i].frameId = received[j].frameId =>
            received[i].t <= received[j].t

----------------------------------------------------------------------------
(* Properties of the session document.                                     *)

\* the frameIds of the cursor points of a session document
PointFrameIds(data) == {data.cursorPoints[i].frameId : i \in DOMAIN data.cursorPoints}
\* the sum of the cursorPointCount of the first n entries of a frames list
RECURSIVE SumCounts(_, _)
SumCounts(frames, n) ==
  IF n = 0 THEN 0 ELSE SumCounts(frames, n - 1) + frames[n].cursorPointCount

\* C32: in every session document an export call has received, the frames
\* list has exactly one entry for each frameId that occurs in the document's
\* cursorPoints and no other entry, each entry's cursorPointCount is the
\* number of points with that frameId, and the counts add up to the length
\* of cursorPoints.
FrameSummary ==
  \A k \in DOMAIN exports :
    LET data == exports[k].session.data
        frames == data.frames
    IN  /\ \A id \in PointFrameIds(data) :
             Cardinality({i \in DOMAIN frames : frames[i].frameId = id}) = 1
        /\ \A i \in DOMAIN frames :
             /\ frames[i].frameId \in PointFrameIds(data)
             /\ frames[i].cursorPointCount =
                  Cardinality({j \in DOMAIN data.cursorPoints :
                                 data.cursorPoints[j].frameId = frames[i].frameId})
        /\ SumCounts(frames, Len(frames)) = Len(data.cursorPoints)

\* an export of the content script's exportSession holds a document with the
\* points of two frames, and another or the same holds two points of one frame
FrameSummaryWitness ==
  \E k \in DOMAIN exports :
    LET data == exports[k].session.data
    IN  /\ data.exportTrigger = "undefined"
        /\ Cardinality(PointFrameIds(data)) = 2
        /\ Len(data.frames) = 2

----------------------------------------------------------------------------
(* Properties of the inactivity trigger.                                   *)

\* C33: the top frame does not go on recording, holding a cursor point, once
\* the pointer has not moved over a CAPTCHA for longer than the inactivity
\* timeout: by then an export-and-reset has been triggered, whose first act
\* is to stop the recording.
InactivityExport ==
  ~ /\ frame["top"].isRecording
    /\ frame["top"].cursorPoints # << >>
    /\ now - frame["top"].lastCursorTime > EXPORT_CONFIG.inactivityTimeoutMs

\* C33, as the code has it: the configuration switches the inactivity export
\* off, so no inactivity timeout is ever pending in the top frame, and a step
\* in which only time passes changes no variable of a content script, sends
\* no message and starts no export, however long the pointer has rested.
NoInactivityExport ==
  [][/\ frame'["top"].inactivityTimer = 0
     /\ last'.action = "idle" => frame' = frame /\ chan' = chan /\ procs' = procs]_vars

\* time has passed while the top frame records and holds a cursor point, and
\* the pointer has by now rested for longer than the inactivity timeout
NoInactivityExportWitness ==
  /\ last.action = "idle"
  /\ frame["top"].isRecording
  /\ frame["top"].cursorPoints # << >>
  /\ now - frame["top"].lastCursorTime > EXPORT_CONFIG.inactivityTimeoutMs

----------------------------------------------------------------------------
(* Properties of the arming.                                               *)

\* C34: when the content script of a frame has started and has run to the
\* end of checkPersistedArmedState, the frame is armed if the background
\* holds its tab in the activated set, and unarmed if it does not.
ArmedStateRestored ==
  [][last'.action = "load" =>
       (frame'[last'.frame].isArmed <=> TabOf(last'.frame) \in activatedTabs)]_vars

----------------------------------------------------------------------------
(* Properties of the export-and-reset.                                     *)

\* C35: when an export-and-reset ends (its exportSession call returns and
\* resetRecording follows) in a frame that is recording, the recording being
\* one that started after the call, which stopped the one before, the frame
\* goes on recording and keeps the cursor points, the elements and the round
\* count of that recording.
ResetSparesNewRecording ==
  [][\A p \in DOMAIN procs :
       /\ procs[p].pc # "done" /\ procs'[p].pc = "done"
       /\ procs[p].then = "reset"
       /\ frame[procs[p].frame].isRecording
       => SessionState(frame'[procs[p].frame]) = SessionState(frame[procs[p].frame])]_vars

----------------------------------------------------------------------------
(* Properties of the frames of one tab.                                    *)

\* every message has been handled and every export call has ended
Quiet ==
  /\ \A f \in Frames : chan[f] = << >>
  /\ \A p \in DOMAIN procs : procs[p].pc = "done"
  /\ \A k \in DOMAIN exports : exports[k].pc \in {"done", "failed"}

\* C36: the child frame follows the top frame out of a recording. In the runs
\* of SpecSummary both frames record from the start and no recording starts
\* later; once the top frame has stopped recording and everything that was
\* sent has been handled, the child frame is not recording either (and so
\* sends no cursor point into the list the export has cleared).
ChildFollowsSession ==
  Quiet /\ ~frame["top"].isRecording /\ frame["top"].recordingStartTime # 0
    => ~frame["child"].isRecording

----------------------------------------------------------------------------
(* Properties of the round counter's bookkeeping.                          *)

\* C37: the top frame's lastImageCount does not run ahead of the aggregator:
\* while the top frame of tab 1 records, once every captcha-image-captured
\* notification has been delivered and every message and export call has
\* been handled, lastImageCount is at most the number of images stored for
\* the tab (so that the next burst of new images is seen as new).
RoundBookkeeping ==
  loaded["top"] /\ frame["top"].isRecording /\ notif[1] = << >> /\ Quiet
    => frame["top"].lastImageCount <= Len(GetOrEmpty(capturedImages, 1))

----------------------------------------------------------------------------
(* Properties of the tabs.                                                 *)

\* what the background script holds for a tab: whether it has an image list,
\* a cursor-point list and an element list, the lists, and the activated flag
TabState(tabId) ==
  <<tabId \in DOMAIN capturedImages, GetOrEmpty(capturedImages, tabId),
    tabId \in DOMAIN aggregatedCursorPoints, GetOrEmpty(aggregatedCursorPoints, tabId),
    tabId \in DOMAIN aggregatedCaptchaElements, GetOrEmpty(aggregatedCaptchaElements, tabId),
    tabId \in activatedTabs>>

\* C38: a step of the background script that is caused by a tab (a message
\* of one of its frames, a request or a response of its network channel, a
\* download of its export, its close) leaves the image list, the cursor-point
\* list, the element list and the activated flag of every other tab as they
\* were.
TabIsolation ==
  [][\A other \in Tabs :
       "tabId" \in DOMAIN last' /\ other # last'.tabId => TabState(other)' = TabState(other)]_vars

\* tab 1 has just been closed while tab 2 is activated and holds a cursor point
TabIsolationWitness ==
  /\ last.action = "tabs.onRemoved" /\ last.tabId = 1
  /\ 2 \in activatedTabs
  /\ GetOrEmpty(aggregatedCursorPoints, 2) # << >>

----------------------------------------------------------------------------
(* Properties of the content script's flags.                               *)

\* C39: in every state of every frame, isRecording implies isArmed: no path
\* starts a recording in an unarmed frame, and disarming stops the recording.
RecordingImpliesArmed ==
  \A f \in Frames : frame[f].isRecording => frame[f].isArmed

\* caplog.disarm() has just been called in the child frame, which had started
\* a recording and whose recording nothing else ends: it is not recording
RecordingImpliesArmedWitness ==
  /\ last.action = "caplog.disarm" /\ last.frame = "child"
  /\ frame["child"].recordingStartTime # 0
  /\ frame["child"].captchaElements # << >>
  /\ ~frame["child"].isRecording
  /\ ~frame["child"].mousemove

\* C40: between event handlers the top frame's recording indicator is present
\* and its interval export timer is active exactly when isRecording is true.
RecordingResourcesMatch ==
  /\ frame["top"].indicatorEl = frame["top"].isRecording
  /\ frame["top"].intervalExportTimer = frame["top"].isRecording

====
